---- MODULE Spec2Model ----
(***************************************************************************)
(* A model of minevent: EventManager (src/src/minevent/manager.py), the    *)
(* event handlers (src/src/minevent/handlers.py) and PeriodicCondition     *)
(* (src/src/minevent/conditions.py).                                       *)
(***************************************************************************)
EXTENDS Integers, Sequences, FiniteSets, TLC

(***************************************************************************)
(* Bounds of the model.                                                    *)
(***************************************************************************)
\* The largest number of entries the registry holds over all its lists.
MaxHandlers == 4
\* The largest value a PeriodicCondition's step counter takes under fire_event.
MaxStep == 3
\* The largest number of entries of the registry when handlers hold conditions.
MaxCondHandlers == 3
\* The largest number of direct evaluate() calls, over all conditions.
MaxEvals == 7
\* The largest number of fire_event calls that are counted.
MaxFires == 10
\* The largest number of handler objects constructed for a manager.
MaxObjs == 2
\* The largest number of entries of the registry of that manager.
MaxNewHandlers == 2
\* The largest number of handler objects constructed to be handle()d directly.
MaxHandleObjs == 1
\* The largest number of direct handle() calls.
MaxHandleCalls == 3

(***************************************************************************)
(* Python values used as event names.  A value is a record of its type and *)
(* its printed form, so that str() is a conversion and not the identity.   *)
(***************************************************************************)
PyStr(s) == [t |-> "str", v |-> s]

None == [t |-> "NoneType", v |-> "None"]

\* str(x): the string whose characters are the printed form of x.
Str(x) == [t |-> "str", v |-> x.v]

\* bool(x), as `if event` and `x or y` evaluate it: None, "", 0 and the
\* empty list, tuple and dict are false.
Truthy(x) ==
    /\ x.t # "NoneType"
    /\ ~(x.t = "str" /\ x.v = "")
    /\ ~(x.t = "int" /\ x.v = "0")
    /\ ~(x.t \in {"list", "tuple", "dict"} /\ x.v = <<>>)

\* A list, a tuple and a dict, as they are written in a call.
PyList(elems) == [t |-> "list", v |-> elems]
PyTuple(elems) == [t |-> "tuple", v |-> elems]
PyDict(items) == [t |-> "dict", v |-> items]

\* x or y
PyOr(x, y) == IF Truthy(x) THEN x ELSE y

\* tuple(x): the tuple of the elements of x.
Tuple(x) == [t |-> "tuple", v |-> x.v]

VARIABLES
    event_handlers,     \* self._event_handlers: event -> list of handlers
    last_fired_event,   \* self._last_fired_event
    step,               \* step[c]: the _step of PeriodicCondition c
    fire,               \* the activation of fire_event: its place, event, iterator
    calls,              \* the handlers handle()d by the fire_event under way or last returned
    ran,                \* payloads run by those handle() calls, in order
    passed,             \* the arguments each of those payload calls was given
    evals,              \* the evaluate() calls made by the operation under way or last returned
    ncalls,             \* ncalls[c]: the calls made so far of evaluate() on c, directly or by handle()
    last,               \* the operation called last: its name, arguments and outcome
    prev,               \* the manager's fields and the counters when that operation was called
    scenario,           \* how much of add; remove; has; remove the last calls spell
    hist,               \* the record a specification keeps of earlier calls: the fires that returned, the last clearing, the add before
    objs,               \* for each constructor call that returned: the handler made, the arguments given, and the caller's list and dict now
    threads             \* two calls made at once on two threads: their arguments, places and local variables

vars ==
    <<event_handlers, last_fired_event, step, fire, calls, ran, passed, evals, ncalls,
      last, prev, scenario, hist, objs, threads>>

(***************************************************************************)
(* Conditions.  A PeriodicCondition object is named by a string; its freq  *)
(* is fixed at construction and its _step is the entry of the variable     *)
(* step.                                                                   *)
(***************************************************************************)
Conditions == {"c1", "c2", "p1", "p3", "z0", "n2", "f25"}

\* Twice the freq argument of the constructor call: c1 and c2 are
\* PeriodicCondition(2), p1 (1), p3 (3), z0 (0), n2 (-2) and f25 (2.5).
FreqArg2(c) ==
    CASE c = "c1" -> 4
      [] c = "c2" -> 4
      [] c = "p1" -> 2
      [] c = "p3" -> 6
      [] c = "z0" -> 0
      [] c = "n2" -> -4
      [] c = "f25" -> 5

\* int(x) of the number x2 / 2: truncation toward zero.
PyInt(x2) == IF x2 >= 0 THEN x2 \div 2 ELSE -((-x2) \div 2)

\* self._freq = int(freq)
Freq(c) == PyInt(FreqArg2(c))

\* a % b of Python for a >= 0 and b # 0: the result has the sign of b.
PyMod(a, b) ==
    IF b > 0 THEN a % b
    ELSE IF a % (-b) = 0 THEN 0 ELSE (a % (-b)) + b

\* Variant: two conditions are equal when their frequencies and their steps
\* are.
PeriodicCondition_equalWithStep(c, other) ==
    Freq(c) = Freq(other) /\ step[c] = step[other]

\* PeriodicCondition.equal on two PeriodicCondition objects.
PeriodicCondition_equal(c, other) == Freq(c) = Freq(other)

\* Variant: the calls are counted from one, so the first call is false.
PeriodicCondition_evaluateFromOne(c, s) == PyMod(s + 1, Freq(c)) = 0

\* The value PeriodicCondition.evaluate returns when _step is s.
PeriodicCondition_evaluate(c, s) == PyMod(s, Freq(c)) = 0

\* What a call of evaluate() gives when _step is s: the value returned, or
\* the error of `self._step % self._freq` when _freq is 0.
EvaluateResult(c, s) ==
    IF Freq(c) = 0 THEN "ZeroDivisionError"
    ELSE IF PeriodicCondition_evaluate(c, s) THEN "true" ELSE "false"

\* Variant: evaluate() leaves _step as it is.
EvaluateStepKeep(c, s) == s

\* _step after that call: the error leaves it as it is.
EvaluateStep(c, s) == IF Freq(c) = 0 THEN s ELSE s + 1

(***************************************************************************)
(* Handlers.  A handler object is a record of its fields; id is the        *)
(* object's identity, so two records that differ in id alone are two       *)
(* objects that are equal.  handler_args is the tuple of the positional    *)
(* arguments; handler_kwargs is the dict of the keyword arguments, the     *)
(* sequence of its <<key, value>> items in insertion order.                *)
(***************************************************************************)
EventHandler(id, handler) ==
    [id |-> id, cls |-> "EventHandler", handler |-> handler,
     handler_args |-> <<>>, handler_kwargs |-> <<>>, condition |-> "none"]

ConditionalEventHandler(id, handler, condition) ==
    [id |-> id, cls |-> "ConditionalEventHandler", handler |-> handler,
     handler_args |-> <<>>, handler_kwargs |-> <<>>, condition |-> condition]

\* Stands for "no handler" in the record of an operation that takes none.
NoHandler ==
    [id |-> 0, cls |-> "none", handler |-> "none",
     handler_args |-> <<>>, handler_kwargs |-> <<>>, condition |-> "none"]

\* A handler of any class with arguments.
Handler(id, cls, handler, handler_args, handler_kwargs, condition) ==
    [id |-> id, cls |-> cls, handler |-> handler,
     handler_args |-> handler_args, handler_kwargs |-> handler_kwargs,
     condition |-> condition]

\* The payloads that can be called; any other value is not callable.
Callables ==
    {"hello_handler", "other_handler", "failing_handler", "adding_handler",
     "self_adding_handler", "removing_handler", "resetting_handler"}

\* callable(x)
callable(x) == x \in Callables

\* Variant: the constructor accepts any payload.
InitErrorNone(handler) == "ok"

\* BaseEventHandlerWithArguments.__init__: the error it raises, or "ok".
InitError(handler) ==
    IF ~callable(handler) THEN "TypeError: handler is not callable" ELSE "ok"

\* The object BaseEventHandlerWithArguments.__init__ and, for the conditional
\* class, ConditionalEventHandler.__init__ leave when they return.
InitFields(id, cls, handler, condition, handler_args, handler_kwargs) ==
    Handler(id, cls, handler,
            Tuple(PyOr(handler_args, PyTuple(<<>>))).v,
            PyOr(handler_kwargs, PyDict(<<>>)).v,
            condition)

\* The items of a dict.
DictItems(d) == {d[i] : i \in 1..Len(d)}

\* Variant: two dicts are equal when they hold the same items in the same
\* order.
DictEqualOrdered(d1, d2) == d1 = d2

\* objects_are_equal on two dicts: the same keys with the same values.
DictEqual(d1, d2) == DictItems(d1) = DictItems(d2)

\* objects_are_equal on two tuples: the same length and, place by place,
\* the same element.
TupleEqual(t1, t2) ==
    /\ Len(t1) = Len(t2)
    /\ \A i \in 1..Len(t1) : t1[i] = t2[i]

EventHandler_equal(self, other) ==
    IF other.cls # "EventHandler" THEN FALSE
    ELSE /\ self.handler = other.handler
         /\ TupleEqual(self.handler_args, other.handler_args)
         /\ DictEqual(self.handler_kwargs, other.handler_kwargs)

\* Variant: the class of other is not looked at, and its condition is
\* compared when it has one.
ConditionalEventHandler_equalAnyClass(self, other) ==
    /\ self.handler = other.handler
    /\ TupleEqual(self.handler_args, other.handler_args)
    /\ DictEqual(self.handler_kwargs, other.handler_kwargs)
    /\ other.cls = "ConditionalEventHandler"
          => PeriodicCondition_equal(self.condition, other.condition)

ConditionalEventHandler_equal(self, other) ==
    IF other.cls # "ConditionalEventHandler" THEN FALSE
    ELSE /\ self.handler = other.handler
         /\ TupleEqual(self.handler_args, other.handler_args)
         /\ DictEqual(self.handler_kwargs, other.handler_kwargs)
         /\ PeriodicCondition_equal(self.condition, other.condition)

\* self.equal(other), dispatched on the class of self.
equal(self, other) ==
    IF self.cls = "EventHandler" THEN EventHandler_equal(self, other)
    ELSE ConditionalEventHandler_equal(self, other)

(***************************************************************************)
(* The inputs of the operations.                                           *)
(***************************************************************************)
\* Event names: non-empty strings.
EventNames == {PyStr("a"), PyStr("b")}

\* Two equal EventHandler objects and an EventHandler with another payload.
Handlers ==
    { EventHandler(1, "hello_handler"),
      EventHandler(2, "hello_handler"),
      EventHandler(3, "other_handler") }

(***************************************************************************)
(* defaultdict(list)                                                       *)
(***************************************************************************)
EmptyDict == [k \in {} |-> <<>>]

\* d after d[k] has been evaluated: a missing key is inserted with list().
Touch(d, k) == IF k \in DOMAIN d THEN d ELSE d @@ (k :> <<>>)

\* d after `del d[k]`.
Del(d, k) == [x \in DOMAIN d \ {k} |-> d[x]]

RECURSIVE SumLen(_, _)
SumLen(d, keys) ==
    IF keys = {} THEN 0
    ELSE LET k == CHOOSE x \in keys : TRUE
         IN  Len(d[k]) + SumLen(d, keys \ {k})

\* The number of entries of the registry.
NumHandlers == SumLen(event_handlers, DOMAIN event_handlers)

Idle == [pc |-> "idle", event |-> None, it |-> 0, lst |-> <<>>, bound |-> FALSE]

\* The fields of the manager, and the counters of the conditions.
Fields ==
    [event_handlers |-> event_handlers, last_fired_event |-> last_fired_event,
     step |-> step]

\* No call is under way on another thread.
NoThreads ==
    [phase |-> "setup", locked |-> FALSE, lock |-> "none", event |-> None,
     h1 |-> NoHandler, h2 |-> NoHandler,
     add |-> [pc |-> "none", bound |-> FALSE],
     rem |-> [pc |-> "none", new |-> <<>>]]

(***************************************************************************)
(* EventManager.__init__                                                   *)
(***************************************************************************)
Init ==
    /\ event_handlers = EmptyDict
    /\ last_fired_event = None
    /\ step = [c \in Conditions |-> 0]
    /\ fire = Idle
    /\ calls = <<>>
    /\ ran = <<>>
    /\ passed = <<>>
    /\ evals = <<>>
    /\ ncalls = [c \in Conditions |-> 0]
    /\ last = [op |-> "init", event |-> None, handler |-> NoHandler, out |-> "ok"]
    /\ prev = [event_handlers |-> EmptyDict, last_fired_event |-> None,
               step |-> [c \in Conditions |-> 0]]
    /\ scenario = 0
    /\ hist = <<>>
    /\ objs = <<>>
    /\ threads = NoThreads

(***************************************************************************)
(* The place of the calls add(e, h); remove(e, h); has(h, e); remove(e, h) *)
(* that the call recorded by rec completes, 0 when it completes none.      *)
(***************************************************************************)
ScenarioNext(rec) ==
    LET same == rec.event = last.event /\ rec.handler = last.handler
    IN  CASE rec.op = "add" -> 1
          [] rec.op = "remove" /\ scenario = 1 /\ same -> 2
          [] rec.op = "has" /\ scenario = 2 /\ same -> 3
          [] rec.op = "remove" /\ scenario = 3 /\ same -> 4
          [] OTHER -> 0

\* What every operation but fire_event does to the record of the calls.
Called(rec) ==
    /\ last' = rec
    /\ prev' = Fields
    /\ scenario' = ScenarioNext(rec)
    /\ calls' = <<>>
    /\ ran' = <<>>
    /\ passed' = <<>>
    /\ evals' = <<>>
    /\ UNCHANGED ncalls

(***************************************************************************)
(* EventManager.add_event_handler                                          *)
(***************************************************************************)
\* Variant: a handler equal to an entry of the list is not added again.
ListAppendIfAbsent(lst, h) ==
    IF \E i \in 1..Len(lst) : equal(h, lst[i]) THEN lst ELSE Append(lst, h)

\* Variant: the handler is inserted at the front of the list.
ListPrepend(lst, h) == <<h>> \o lst

\* list.append
ListAppend(lst, h) == Append(lst, h)

AddEventHandler(event, h) ==
    /\ fire.pc = "idle"
    /\ event_handlers' =
          [Touch(event_handlers, Str(event)) EXCEPT ![Str(event)] = ListAppend(@, h)]
    /\ Called([op |-> "add", event |-> event, handler |-> h, out |-> "ok"])
    /\ UNCHANGED <<last_fired_event, step, fire>>

(***************************************************************************)
(* EventManager.has_event_handler                                          *)
(***************************************************************************)
\* The events whose lists are scanned.
HasEventHandlerEvents(d, event) == IF Truthy(event) THEN {event} ELSE DOMAIN d

\* Variant: the lookup inserts no key.
HasEventHandlerDictUntouched(d, event) == d

\* The registry after the call: self._event_handlers[evnt] is evaluated for
\* each scanned event.
HasEventHandlerDict(d, event) == IF Truthy(event) THEN Touch(d, event) ELSE d

\* Variant: entries are compared by identity (`is`) and not with equal.
HasEventHandlerResultByIdentity(d, h, event) ==
    \E evnt \in HasEventHandlerEvents(d, event) :
        evnt \in DOMAIN d /\ \E i \in 1..Len(d[evnt]) : h.id = d[evnt][i].id

\* Variant: a list matches when all of its entries are equal to h (`all`
\* for `any`), so an empty list matches.
HasEventHandlerResultAll(d, h, event) ==
    \E evnt \in HasEventHandlerEvents(d, event) :
        evnt \in DOMAIN d /\ \A i \in 1..Len(d[evnt]) : equal(h, d[evnt][i])

\* Variant: only the first entry of a list is compared with h.
HasEventHandlerResultFirstOnly(d, h, event) ==
    \E evnt \in HasEventHandlerEvents(d, event) :
        evnt \in DOMAIN d /\ Len(d[evnt]) >= 1 /\ equal(h, d[evnt][1])

\* The value returned.
HasEventHandlerResult(d, h, event) ==
    \E evnt \in HasEventHandlerEvents(d, event) :
        evnt \in DOMAIN d /\ \E i \in 1..Len(d[evnt]) : equal(h, d[evnt][i])

HasEventHandler(h, event) ==
    /\ fire.pc = "idle"
    /\ event_handlers' = HasEventHandlerDict(event_handlers, event)
    /\ Called([op |-> "has", event |-> event, handler |-> h,
               out |-> IF HasEventHandlerResult(event_handlers, h, event)
                       THEN "true" ELSE "false"])
    /\ UNCHANGED <<last_fired_event, step, fire>>

(***************************************************************************)
(* EventManager.remove_event_handler                                       *)
(***************************************************************************)
\* Variant: only the first entry that h.equal matches is dropped.
NewEventHandlersFirstOnly(lst, h) ==
    IF \E i \in 1..Len(lst) : equal(h, lst[i])
    THEN LET i == CHOOSE j \in 1..Len(lst) :
                     equal(h, lst[j]) /\ \A k \in 1..(j - 1) : ~equal(h, lst[k])
         IN  SubSeq(lst, 1, i - 1) \o SubSeq(lst, i + 1, Len(lst))
    ELSE lst

\* new_event_handlers: the entries of lst that h.equal does not match.
NewEventHandlers(lst, h) == SelectSeq(lst, LAMBDA handler : ~equal(h, handler))

\* Variant: the new list is stored even when it is empty.
StoreAlways(d, event, new) == [d EXCEPT ![event] = new]

\* Variant: the registry is rebuilt with the list of the event alone.
StoreOrDeleteOthersLost(d, event, new) ==
    IF Len(new) > 0 THEN [k \in {event} |-> new] ELSE EmptyDict

\* The registry once new_event_handlers is stored, or the key deleted.
StoreOrDelete(d, event, new) ==
    IF Len(new) > 0 THEN [d EXCEPT ![event] = new] ELSE Del(d, event)

\* Variant: the list of the event is read before the event is looked up, so
\* that a call for an unknown event leaves its key in the registry.
RemoveEventHandlerTouching(event, h) ==
    /\ fire.pc = "idle"
    /\ IF event \notin DOMAIN event_handlers
       THEN /\ Called([op |-> "remove", event |-> event, handler |-> h,
                       out |-> "event does not exist"])
            /\ event_handlers' = Touch(event_handlers, event)
       ELSE LET new == NewEventHandlers(event_handlers[event], h)
            IN  IF Len(new) = Len(event_handlers[event])
                THEN /\ Called([op |-> "remove", event |-> event, handler |-> h,
                                out |-> "handler is not found"])
                     /\ UNCHANGED event_handlers
                ELSE /\ event_handlers' = StoreOrDelete(event_handlers, event, new)
                     /\ Called([op |-> "remove", event |-> event, handler |-> h,
                                out |-> "ok"])
    /\ UNCHANGED <<last_fired_event, step, fire>>

RemoveEventHandler(event, h) ==
    /\ fire.pc = "idle"
    /\ IF event \notin DOMAIN event_handlers
       THEN /\ Called([op |-> "remove", event |-> event, handler |-> h,
                       out |-> "event does not exist"])
            /\ UNCHANGED event_handlers
       ELSE LET new == NewEventHandlers(event_handlers[event], h)
            IN  IF Len(new) = Len(event_handlers[event])
                THEN /\ Called([op |-> "remove", event |-> event, handler |-> h,
                                out |-> "handler is not found"])
                     /\ UNCHANGED event_handlers
                ELSE /\ event_handlers' = StoreOrDelete(event_handlers, event, new)
                     /\ Called([op |-> "remove", event |-> event, handler |-> h,
                                out |-> "ok"])
    /\ UNCHANGED <<last_fired_event, step, fire>>

(***************************************************************************)
(* EventManager.reset                                                      *)
(***************************************************************************)
\* Variant: the registry is cleared and _last_fired_event is kept.
ResetRegistryOnly ==
    /\ fire.pc = "idle"
    /\ event_handlers' = EmptyDict
    /\ Called([op |-> "reset", event |-> None, handler |-> NoHandler, out |-> "ok"])
    /\ UNCHANGED <<last_fired_event, step, fire>>

\* Variant: _last_fired_event is cleared and the registry is kept.
ResetLastFiredOnly ==
    /\ fire.pc = "idle"
    /\ last_fired_event' = None
    /\ Called([op |-> "reset", event |-> None, handler |-> NoHandler, out |-> "ok"])
    /\ UNCHANGED <<event_handlers, step, fire>>

\* Variant: reset() also rewinds the conditions of the handlers.
ResetConditions ==
    /\ fire.pc = "idle"
    /\ event_handlers' = EmptyDict
    /\ last_fired_event' = None
    /\ step' = [c \in Conditions |-> 0]
    /\ Called([op |-> "reset", event |-> None, handler |-> NoHandler, out |-> "ok"])
    /\ UNCHANGED fire

Reset ==
    /\ fire.pc = "idle"
    /\ event_handlers' = EmptyDict
    /\ last_fired_event' = None
    /\ Called([op |-> "reset", event |-> None, handler |-> NoHandler, out |-> "ok"])
    /\ UNCHANGED <<step, fire>>

(***************************************************************************)
(* EventManager.fire_event: its entry, one iteration of its loop for each  *)
(* handler, and its return.  fire_event runs on the caller's thread, so no *)
(* other operation starts until it has returned, but for the calls that    *)
(* the payloads make on the manager.  fire.lst is the list object that the *)
(* for loop walks; fire.bound says that self._event_handlers[event] is     *)
(* still that object.                                                      *)
(***************************************************************************)
\* The number of entries of lst that hold condition c.
Uses(lst, c) == Cardinality({i \in 1..Len(lst) : lst[i].condition = c})

\* No counter passes max when the handlers of event are handle()d once more.
StepsLeft(event, max) ==
    \A c \in Conditions :
        step[c] + Uses(IF event \in DOMAIN event_handlers
                       THEN event_handlers[event] ELSE <<>>, c) <= max

\* Variant: fire_event does not record the event before it calls the handlers.
FireEventUnrecorded(event) ==
    /\ fire.pc = "idle"
    /\ event_handlers' = Touch(event_handlers, event)
    /\ fire' = [pc |-> "loop", event |-> event, it |-> 1,
                 lst |-> IF event \in DOMAIN event_handlers
                         THEN event_handlers[event] ELSE <<>>,
                 bound |-> TRUE]
    /\ calls' = <<>>
    /\ ran' = <<>>
    /\ passed' = <<>>
    /\ evals' = <<>>
    /\ last' = [op |-> "fire", event |-> event, handler |-> NoHandler, out |-> "running"]
    /\ prev' = Fields
    /\ scenario' = 0
    /\ UNCHANGED <<last_fired_event, step, ncalls>>

FireEvent(event) ==
    /\ fire.pc = "idle"
    /\ last_fired_event' = event
    /\ event_handlers' = Touch(event_handlers, event)
    /\ fire' = [pc |-> "loop", event |-> event, it |-> 1,
                 lst |-> IF event \in DOMAIN event_handlers
                         THEN event_handlers[event] ELSE <<>>,
                 bound |-> TRUE]
    /\ calls' = <<>>
    /\ ran' = <<>>
    /\ passed' = <<>>
    /\ evals' = <<>>
    /\ last' = [op |-> "fire", event |-> event, handler |-> NoHandler, out |-> "running"]
    /\ prev' = Fields
    /\ scenario' = 0
    /\ UNCHANGED <<step, ncalls>>

\* Variant: the list is walked from its end.
IterNextReversed(lst, it) == lst[Len(lst) - it + 1]

\* The element the list iterator yields at place it.
IterNext(lst, it) == lst[it]

\* The payloads that raise when they are called.
FailingPayloads == {"failing_handler"}

\* The call that payload p makes on the manager when it is run: the
\* adding payloads register a handler under event "a", the removing one
\* unregisters hello_handler from it, the resetting one calls reset().
NoCall == [op |-> "none", event |-> None, handler |-> NoHandler]

PayloadCall(p) ==
    CASE p = "adding_handler" ->
            [op |-> "add", event |-> PyStr("a"),
             handler |-> EventHandler(17, "other_handler")]
      [] p = "self_adding_handler" ->
            [op |-> "add", event |-> PyStr("a"),
             handler |-> EventHandler(18, "self_adding_handler")]
      [] p = "removing_handler" ->
            [op |-> "remove", event |-> PyStr("a"),
             handler |-> EventHandler(19, "hello_handler")]
      [] p = "resetting_handler" -> [op |-> "reset", event |-> None, handler |-> NoHandler]
      [] OTHER -> NoCall

\* The manager, and the list that fire_event walks, after that call was made
\* from a payload, and what the call gave.  add_event_handler appends to the
\* list object of the registry in place, remove_event_handler binds the key
\* to a new list or deletes it, and reset() clears the dict: the list that
\* is walked is changed by an append alone, while the registry still holds it.
ManagerAfter(call) ==
    LET d == event_handlers
        keep == [event_handlers |-> d, last_fired_event |-> last_fired_event,
                 lst |-> fire.lst, bound |-> fire.bound, out |-> "ok"]
    IN  CASE call.op = "add" ->
                LET key == Str(call.event)
                IN  [keep EXCEPT
                       !.event_handlers =
                           [Touch(d, key) EXCEPT ![key] = ListAppend(@, call.handler)],
                       !.lst = IF fire.bound /\ key = fire.event
                               THEN ListAppend(@, call.handler) ELSE @]
          [] call.op = "remove" ->
                IF call.event \notin DOMAIN d
                THEN [keep EXCEPT !.out = "RuntimeError"]
                ELSE LET new == NewEventHandlers(d[call.event], call.handler)
                     IN  IF Len(new) = Len(d[call.event])
                         THEN [keep EXCEPT !.out = "RuntimeError"]
                         ELSE [keep EXCEPT
                                 !.event_handlers = StoreOrDelete(d, call.event, new),
                                 !.bound = @ /\ call.event # fire.event]
          [] call.op = "reset" ->
                [keep EXCEPT !.event_handlers = EmptyDict,
                             !.last_fired_event = None,
                             !.bound = FALSE]
          [] OTHER -> keep

\* What a call of payload p gives: it returns, or raises its error or the
\* error of the call it makes.
PayloadOutcome(p) ==
    IF p \in FailingPayloads THEN "PayloadError" ELSE ManagerAfter(PayloadCall(p)).out

\* Variant: the payload is called with the positional arguments only.
RunPayloadArgsOnly(h) ==
    /\ ran' = Append(ran, h.handler)
    /\ passed' = Append(passed, [args |-> h.handler_args, kwargs |-> {}])

\* BaseEventHandlerWithArguments.handle: the payload is called with
\* *self._handler_args and **self._handler_kwargs.
RunPayload(h) ==
    /\ ran' = Append(ran, h.handler)
    /\ passed' = Append(passed, [args |-> h.handler_args,
                                 kwargs |-> DictItems(h.handler_kwargs)])

\* EventHandler.handle
EventHandler_handle(h) ==
    /\ RunPayload(h)
    /\ UNCHANGED <<step, evals, ncalls>>

\* self._condition.evaluate exists: the condition is a condition object.
HasEvaluate(c) == c \in Conditions

\* Variant: the payload is called whatever the condition says.
ConditionalEventHandler_handleAlways(h) ==
    LET c == h.condition
        condition == EvaluateResult(c, step[c])
    IN  /\ step' = [step EXCEPT ![c] = EvaluateStep(c, @)]
        /\ evals' = Append(evals, [cond |-> c, step |-> step[c], result |-> condition])
        /\ ncalls' = [ncalls EXCEPT ![c] = @ + 1]
        /\ RunPayload(h)

\* Variant: the handler evaluates a copy of its condition, whose counter is
\* lost after the call.
ConditionalEventHandler_handleOnCopy(h) ==
    LET c == h.condition
        condition == EvaluateResult(c, step[c])
    IN  /\ UNCHANGED step
        /\ evals' = Append(evals, [cond |-> c, step |-> step[c], result |-> condition])
        /\ ncalls' = [ncalls EXCEPT ![c] = @ + 1]
        /\ IF condition = "true" THEN RunPayload(h) ELSE UNCHANGED <<ran, passed>>

\* Variant: the call advances the counter of every condition.
ConditionalEventHandler_handleStepAll(h) ==
    LET c == h.condition
        condition == EvaluateResult(c, step[c])
    IN  /\ step' = [x \in Conditions |-> EvaluateStep(x, step[x])]
        /\ evals' = Append(evals, [cond |-> c, step |-> step[c], result |-> condition])
        /\ ncalls' = [ncalls EXCEPT ![c] = @ + 1]
        /\ IF condition = "true" THEN RunPayload(h) ELSE UNCHANGED <<ran, passed>>

\* ConditionalEventHandler.handle, with PeriodicCondition.evaluate; a
\* condition that has no evaluate attribute makes the call raise.
ConditionalEventHandler_handle(h) ==
    LET c == h.condition
        condition == IF HasEvaluate(c) THEN EvaluateResult(c, step[c])
                     ELSE "AttributeError"
    IN  IF ~HasEvaluate(c)
        THEN UNCHANGED <<step, evals, ncalls, ran, passed>>
        ELSE /\ step' = [step EXCEPT ![c] = EvaluateStep(c, @)]
             /\ evals' = Append(evals, [cond |-> c, step |-> step[c],
                                        result |-> condition])
             /\ ncalls' = [ncalls EXCEPT ![c] = @ + 1]
             /\ IF condition = "true" THEN RunPayload(h) ELSE UNCHANGED <<ran, passed>>

\* What h.handle() gives: it returns ("ok"), or the error that leaves it.
HandleOutcome(h) ==
    IF h.cls = "EventHandler" THEN PayloadOutcome(h.handler)
    ELSE IF ~HasEvaluate(h.condition) THEN "AttributeError"
    ELSE LET condition == EvaluateResult(h.condition, step[h.condition])
         IN  IF condition = "ZeroDivisionError" THEN condition
             ELSE IF condition = "true" THEN PayloadOutcome(h.handler)
             ELSE "ok"

\* h.handle() runs the payload of h.
Runs(h) ==
    \/ h.cls = "EventHandler"
    \/ /\ HasEvaluate(h.condition)
       /\ EvaluateResult(h.condition, step[h.condition]) = "true"

\* The manager and the walked list after h.handle().
AfterHandle(h) == ManagerAfter(IF Runs(h) THEN PayloadCall(h.handler) ELSE NoCall)

\* Variant: the error of a handler is swallowed and the loop goes on.
LoopAfterSwallow(outcome, after) ==
    /\ fire' = [fire EXCEPT !.it = @ + 1, !.lst = after.lst, !.bound = after.bound]
    /\ event_handlers' = after.event_handlers
    /\ last_fired_event' = after.last_fired_event
    /\ UNCHANGED last

\* Variant: a handler that raised is dropped from the list of the event.
LoopAfterUnregister(outcome, after) ==
    IF outcome = "ok"
    THEN /\ fire' = [fire EXCEPT !.it = @ + 1, !.lst = after.lst, !.bound = after.bound]
         /\ event_handlers' = after.event_handlers
         /\ last_fired_event' = after.last_fired_event
         /\ UNCHANGED last
    ELSE /\ fire' = Idle
         /\ last' = [last EXCEPT !.out = outcome]
         /\ last_fired_event' = after.last_fired_event
         /\ event_handlers' =
               [after.event_handlers EXCEPT ![fire.event] =
                   SubSeq(@, 1, fire.it - 1) \o SubSeq(@, fire.it + 1, Len(@))]

\* fire_event after a handle() call: the next iteration, or the error
\* leaves fire_event, which catches nothing and touches nothing.
LoopAfter(outcome, after) ==
    IF outcome = "ok"
    THEN /\ fire' = [fire EXCEPT !.it = @ + 1, !.lst = after.lst, !.bound = after.bound]
         /\ event_handlers' = after.event_handlers
         /\ last_fired_event' = after.last_fired_event
         /\ UNCHANGED last
    ELSE /\ fire' = Idle
         /\ last' = [last EXCEPT !.out = outcome]
         /\ event_handlers' = after.event_handlers
         /\ last_fired_event' = after.last_fired_event

Handle ==
    /\ fire.pc = "loop"
    /\ fire.it <= Len(fire.lst)
    /\ LET h == IterNext(fire.lst, fire.it)
       IN  /\ calls' = Append(calls, h)
           /\ IF h.cls = "EventHandler"
              THEN EventHandler_handle(h)
              ELSE ConditionalEventHandler_handle(h)
           /\ LoopAfter(HandleOutcome(h), AfterHandle(h))
    /\ UNCHANGED <<prev, scenario>>

\* Variant: the handlers of the event are unregistered once they were called.
FireReturnOneShot ==
    /\ fire.pc = "loop"
    /\ fire.it > Len(fire.lst)
    /\ fire' = Idle
    /\ last' = [last EXCEPT !.out = "ok"]
    /\ event_handlers' = [event_handlers EXCEPT ![fire.event] = <<>>]
    /\ UNCHANGED <<last_fired_event, step, calls, ran, passed, evals, ncalls,
                   prev, scenario>>

FireReturn ==
    /\ fire.pc = "loop"
    /\ fire.it > Len(fire.lst)
    /\ fire' = Idle
    /\ last' = [last EXCEPT !.out = "ok"]
    /\ UNCHANGED <<event_handlers, last_fired_event, step, calls, ran, passed, evals, ncalls,
                   prev, scenario>>

(***************************************************************************)
(* A manager whose handlers are unconditional and whose payloads return.   *)
(***************************************************************************)
Next ==
    \/ \E e \in EventNames, h \in Handlers :
          NumHandlers < MaxHandlers /\ AddEventHandler(e, h) /\ UNCHANGED <<hist, objs, threads>>
    \/ \E e \in EventNames : StepsLeft(e, MaxStep) /\ FireEvent(e) /\ UNCHANGED <<hist, objs, threads>>
    \/ Handle /\ UNCHANGED <<hist, objs, threads>>
    \/ FireReturn /\ UNCHANGED <<hist, objs, threads>>
    \/ \E h \in Handlers, e \in EventNames \cup {None} :
          HasEventHandler(h, e) /\ UNCHANGED <<hist, objs, threads>>
    \/ \E e \in EventNames, h \in Handlers : RemoveEventHandler(e, h) /\ UNCHANGED <<hist, objs, threads>>
    \/ Reset /\ UNCHANGED <<hist, objs, threads>>

Spec == Init /\ [][Next]_vars

(***************************************************************************)
(* A manager whose handlers are conditional.  Two handler objects share    *)
(* the condition c1; a third object, equal to the first, holds a condition *)
(* of its own of the same frequency, and is only ever passed to            *)
(* has_event_handler and remove_event_handler, so its condition is never   *)
(* evaluated.                                                              *)
(***************************************************************************)
CondHandlers ==
    { ConditionalEventHandler(4, "hello_handler", "c1"),
      ConditionalEventHandler(7, "other_handler", "c1") }

CondProbes == CondHandlers \cup { ConditionalEventHandler(6, "hello_handler", "c2") }

NextCond ==
    \/ \E e \in EventNames, h \in CondHandlers :
          NumHandlers < MaxCondHandlers /\ AddEventHandler(e, h) /\ UNCHANGED <<hist, objs, threads>>
    \/ \E e \in EventNames : StepsLeft(e, MaxStep) /\ FireEvent(e) /\ UNCHANGED <<hist, objs, threads>>
    \/ Handle /\ UNCHANGED <<hist, objs, threads>>
    \/ FireReturn /\ UNCHANGED <<hist, objs, threads>>
    \/ \E h \in CondProbes, e \in EventNames \cup {None} :
          HasEventHandler(h, e) /\ UNCHANGED <<hist, objs, threads>>
    \/ \E e \in EventNames, h \in CondProbes :
          RemoveEventHandler(e, h) /\ UNCHANGED <<hist, objs, threads>>
    \/ Reset /\ UNCHANGED <<hist, objs, threads>>

SpecCond == Init /\ [][NextCond]_vars

(***************************************************************************)
(* A manager with one conditional handler, registered once on the new      *)
(* manager with a condition of its own, and then only fired; every         *)
(* fire_event call that returns is written to hist.                        *)
(***************************************************************************)
PeriodicHandlers ==
    { ConditionalEventHandler(8, "hello_handler", "p1"),
      ConditionalEventHandler(9, "hello_handler", "c2"),
      ConditionalEventHandler(10, "hello_handler", "p3") }

\* The fire_event call that returns is added to the record of the fires.
LogFire == hist' = Append(hist, [event |-> fire.event, ran |-> ran])

NextPeriodic ==
    \/ \E e \in EventNames, h \in PeriodicHandlers :
          /\ event_handlers = EmptyDict
          /\ hist = <<>>
          /\ AddEventHandler(e, h)
          /\ UNCHANGED <<hist, objs, threads>>
    \/ \E e \in EventNames : Len(hist) < MaxFires /\ FireEvent(e) /\ UNCHANGED <<hist, objs, threads>>
    \/ Handle /\ UNCHANGED <<hist, objs, threads>>
    \/ FireReturn /\ LogFire /\ UNCHANGED <<objs, threads>>

SpecPeriodic == Init /\ [][NextPeriodic]_vars

(***************************************************************************)
(* A manager whose user calls add_event_handler(e, h) only as the call     *)
(* that follows a has_event_handler(h, e) that returned false.             *)
(***************************************************************************)
\* The call before this one was has_event_handler(h, event), and it returned
\* false.
HasReturnedFalse(h, event) ==
    /\ last.op = "has"
    /\ last.handler = h
    /\ last.event = event
    /\ last.out = "false"

NextGuarded ==
    \/ \E e \in EventNames, h \in Handlers :
          /\ HasReturnedFalse(h, e)
          /\ NumHandlers < MaxHandlers
          /\ AddEventHandler(e, h)
          /\ UNCHANGED <<hist, objs, threads>>
    \/ \E e \in EventNames : StepsLeft(e, MaxStep) /\ FireEvent(e) /\ UNCHANGED <<hist, objs, threads>>
    \/ Handle /\ UNCHANGED <<hist, objs, threads>>
    \/ FireReturn /\ UNCHANGED <<hist, objs, threads>>
    \/ \E h \in Handlers, e \in EventNames \cup {None} :
          HasEventHandler(h, e) /\ UNCHANGED <<hist, objs, threads>>
    \/ \E e \in EventNames, h \in Handlers :
          RemoveEventHandler(e, h) /\ UNCHANGED <<hist, objs, threads>>
    \/ Reset /\ UNCHANGED <<hist, objs, threads>>

SpecGuarded == Init /\ [][NextGuarded]_vars

(***************************************************************************)
(* The constructors of the handlers.  The object made gets the next        *)
(* identity; a constructor that raises makes no object.                    *)
(***************************************************************************)
Construct(cls, handler, condition, handler_args, handler_kwargs) ==
    LET given == [cls |-> cls, handler |-> handler, condition |-> condition,
                  handler_args |-> handler_args, handler_kwargs |-> handler_kwargs]
        self == InitFields(Len(objs) + 1, cls, handler, condition,
                           handler_args, handler_kwargs)
        error == InitError(handler)
    IN  /\ fire.pc = "idle"
        /\ IF error # "ok"
           THEN /\ Called([op |-> "new", event |-> None, handler |-> NoHandler,
                           given |-> given, before |-> Len(objs), out |-> error])
                /\ UNCHANGED objs
           ELSE /\ Called([op |-> "new", event |-> None, handler |-> self,
                           given |-> given, before |-> Len(objs), out |-> "ok"])
                /\ objs' = Append(objs, [self |-> self, given |-> given,
                                         held |-> [handler_args |-> handler_args,
                                                   handler_kwargs |-> handler_kwargs]])
        /\ UNCHANGED <<event_handlers, last_fired_event, step, fire>>

\* EventHandler(handler, handler_args, handler_kwargs)
NewEventHandler(handler, handler_args, handler_kwargs) ==
    Construct("EventHandler", handler, "none", handler_args, handler_kwargs)

\* ConditionalEventHandler(handler, condition, handler_args, handler_kwargs)
NewConditionalEventHandler(handler, condition, handler_args, handler_kwargs) ==
    Construct("ConditionalEventHandler", handler, condition, handler_args,
              handler_kwargs)

(***************************************************************************)
(* A manager whose handlers are constructed by the specification, from     *)
(* payloads and conditions some of which are the integer 123.              *)
(***************************************************************************)
NewPayloads == {"hello_handler", "123"}

NewConditions == {"c1", "123"}

NextNew ==
    \/ \E p \in NewPayloads :
          Len(objs) < MaxObjs /\ NewEventHandler(p, None, None) /\ UNCHANGED <<hist, threads>>
    \/ \E p \in NewPayloads, c \in NewConditions :
          /\ Len(objs) < MaxObjs
          /\ NewConditionalEventHandler(p, c, None, None)
          /\ UNCHANGED <<hist, threads>>
    \/ \E e \in EventNames, i \in 1..Len(objs) :
          /\ NumHandlers < MaxNewHandlers
          /\ AddEventHandler(e, objs[i].self)
          /\ UNCHANGED <<hist, objs, threads>>
    \/ \E e \in EventNames : StepsLeft(e, MaxStep) /\ FireEvent(e) /\ UNCHANGED <<hist, objs, threads>>
    \/ Handle /\ UNCHANGED <<hist, objs, threads>>
    \/ FireReturn /\ UNCHANGED <<hist, objs, threads>>

SpecNew == Init /\ [][NextNew]_vars

(***************************************************************************)
(* handle() called directly on EventHandler objects that the specification *)
(* constructs with arguments.  calls, ran and passed are the record of the *)
(* handle() calls made since the last constructor call.                    *)
(***************************************************************************)
HandlePayloads == {"hello_handler", "other_handler", "failing_handler"}

ArgInputs ==
    { None, PyList(<<>>), PyList(<<"x", "y">>), PyTuple(<<"x">>) }

KwargInputs ==
    { None, PyDict(<<>>), PyDict(<< <<"k1", "x">>, <<"k2", "y">> >>) }

\* objs[i].self.handle(), called by the user of the handler.
HandleObject(i) ==
    LET h == objs[i].self
    IN  /\ fire.pc = "idle"
        /\ calls' = Append(calls, h)
        /\ IF h.cls = "EventHandler"
           THEN EventHandler_handle(h)
           ELSE ConditionalEventHandler_handle(h)
        /\ last' = [op |-> "handle", event |-> None, handler |-> h,
                    out |-> HandleOutcome(h)]
        /\ prev' = Fields
        /\ scenario' = 0
        /\ event_handlers' = AfterHandle(h).event_handlers
        /\ last_fired_event' = AfterHandle(h).last_fired_event
        /\ UNCHANGED <<fire, objs>>

NextHandle ==
    \/ \E p \in HandlePayloads, a \in ArgInputs, k \in KwargInputs :
          Len(objs) < MaxHandleObjs /\ NewEventHandler(p, a, k) /\ UNCHANGED <<hist, threads>>
    \/ \E i \in 1..Len(objs) :
          Len(calls) < MaxHandleCalls /\ HandleObject(i) /\ UNCHANGED <<hist, threads>>

SpecHandle == Init /\ [][NextHandle]_vars

(***************************************************************************)
(* equal() called once on two handler objects: self is an object of one    *)
(* construction, other is that object or one of another construction.      *)
(***************************************************************************)
Payloads == {"hello_handler", "other_handler"}

ArgTuples == { <<>>, <<"x">>, <<"x", "y">>, <<"y", "x">> }

KwargDicts ==
    { <<>>,
      << <<"k1", "x">> >>,
      << <<"k1", "x">>, <<"k2", "y">> >>,
      << <<"k2", "y">>, <<"k1", "x">> >>,
      << <<"k1", "y">>, <<"k2", "x">> >> }

EqualConditions == {"c1", "f25", "p3"}

\* The handler objects of construction id.
EqualHandlers(id) ==
    { Handler(id, "EventHandler", p, a, k, "none") :
        p \in Payloads, a \in ArgTuples, k \in KwargDicts }
    \cup
    { Handler(id, "ConditionalEventHandler", p, a, k, c) :
        p \in Payloads, a \in ArgTuples, k \in KwargDicts, c \in EqualConditions }

Equal(self, other) ==
    /\ fire.pc = "idle"
    /\ Called([op |-> "equal", event |-> None, handler |-> self, other |-> other,
               out |-> IF equal(self, other) THEN "true" ELSE "false"])
    /\ UNCHANGED <<event_handlers, last_fired_event, step, fire>>

\* One call is made, on the new objects.
NextEqual ==
    /\ last.op = "init"
    /\ \E self \in EqualHandlers(1), other \in EqualHandlers(1) \cup EqualHandlers(2) :
          Equal(self, other) /\ UNCHANGED <<hist, objs, threads>>

SpecEqual == Init /\ [][NextEqual]_vars

(***************************************************************************)
(* PeriodicCondition.evaluate called directly on the condition objects.    *)
(***************************************************************************)
RECURSIVE SumCalls(_, _)
SumCalls(f, S) ==
    IF S = {} THEN 0
    ELSE LET c == CHOOSE x \in S : TRUE IN f[c] + SumCalls(f, S \ {c})

\* The number of evaluate() calls made so far, on all the conditions.
NumEvals == SumCalls(ncalls, Conditions)

Evaluate(c) ==
    LET condition == EvaluateResult(c, step[c])
    IN  /\ fire.pc = "idle"
        /\ step' = [step EXCEPT ![c] = EvaluateStep(c, @)]
        /\ ncalls' = [ncalls EXCEPT ![c] = @ + 1]
        /\ evals' = <<[cond |-> c, step |-> step[c], result |-> condition]>>
        /\ last' = [op |-> "evaluate", event |-> None, handler |-> NoHandler,
                    out |-> condition]
        /\ prev' = Fields
        /\ scenario' = 0
        /\ calls' = <<>>
        /\ ran' = <<>>
        /\ passed' = <<>>
        /\ UNCHANGED <<event_handlers, last_fired_event, fire>>

NextEvaluate ==
    \E c \in Conditions : NumEvals < MaxEvals /\ Evaluate(c) /\ UNCHANGED <<hist, objs, threads>>

SpecEvaluate == Init /\ [][NextEvaluate]_vars

(***************************************************************************)
(* A manager whose handlers are unconditional and one of whose payloads    *)
(* raises.                                                                 *)
(***************************************************************************)
ErrHandlers ==
    { EventHandler(1, "hello_handler"),
      EventHandler(3, "other_handler"),
      EventHandler(5, "failing_handler") }

NextErr ==
    \/ \E e \in EventNames, h \in ErrHandlers :
          NumHandlers < MaxHandlers /\ AddEventHandler(e, h) /\ UNCHANGED <<hist, objs, threads>>
    \/ \E e \in EventNames : StepsLeft(e, MaxStep) /\ FireEvent(e) /\ UNCHANGED <<hist, objs, threads>>
    \/ Handle /\ UNCHANGED <<hist, objs, threads>>
    \/ FireReturn /\ UNCHANGED <<hist, objs, threads>>
    \/ \E h \in ErrHandlers, e \in EventNames \cup {None} :
          HasEventHandler(h, e) /\ UNCHANGED <<hist, objs, threads>>
    \/ \E e \in EventNames, h \in ErrHandlers :
          RemoveEventHandler(e, h) /\ UNCHANGED <<hist, objs, threads>>
    \/ Reset /\ UNCHANGED <<hist, objs, threads>>

SpecErr == Init /\ [][NextErr]_vars

(***************************************************************************)
(* A manager whose two conditional handlers hold a condition each, and     *)
(* whose last remove_event_handler or reset call is kept in hist with the  *)
(* counters of the conditions at the call.                                 *)
(***************************************************************************)
FrameHandlers ==
    { ConditionalEventHandler(11, "hello_handler", "c1"),
      ConditionalEventHandler(12, "other_handler", "p3") }

\* hist holds the last remove_event_handler or reset call made.
LogClear == hist' = <<[op |-> last'.op, step |-> step]>>

NextFrame ==
    \/ \E e \in EventNames, h \in FrameHandlers :
          NumHandlers < MaxCondHandlers /\ AddEventHandler(e, h) /\ UNCHANGED <<hist, objs, threads>>
    \/ \E e \in EventNames : StepsLeft(e, MaxStep) /\ FireEvent(e) /\ UNCHANGED <<hist, objs, threads>>
    \/ Handle /\ UNCHANGED <<hist, objs, threads>>
    \/ FireReturn /\ UNCHANGED <<hist, objs, threads>>
    \/ \E e \in EventNames, h \in FrameHandlers :
          RemoveEventHandler(e, h) /\ LogClear /\ UNCHANGED <<objs, threads>>
    \/ Reset /\ LogClear /\ UNCHANGED <<objs, threads>>

SpecFrame == Init /\ [][NextFrame]_vars

(***************************************************************************)
(* equal() called on three handler objects x, y and z of three              *)
(* constructions: x.equal(x), x.equal(y), y.equal(x), y.equal(z) and        *)
(* x.equal(z).                                                              *)
(***************************************************************************)
EquivArgTuples == { <<>>, <<"x">> }

EquivKwargDicts ==
    { <<>>,
      << <<"k1", "x">>, <<"k2", "y">> >>,
      << <<"k2", "y">>, <<"k1", "x">> >> }

EquivConditions == {"c1", "c2", "p3"}

\* The handler objects of construction id.
EquivHandlers(id) ==
    { Handler(id, "EventHandler", p, a, k, "none") :
        p \in Payloads, a \in EquivArgTuples, k \in EquivKwargDicts }
    \cup
    { Handler(id, "ConditionalEventHandler", p, a, k, c) :
        p \in Payloads, a \in EquivArgTuples, k \in EquivKwargDicts,
        c \in EquivConditions }

EqualCalls(x, y, z) ==
    /\ fire.pc = "idle"
    /\ Called([op |-> "equals", event |-> None, handler |-> x, other |-> y,
               third |-> z,
               out |-> [xx |-> equal(x, x), xy |-> equal(x, y), yx |-> equal(y, x),
                        yz |-> equal(y, z), xz |-> equal(x, z)]])
    /\ UNCHANGED <<event_handlers, last_fired_event, step, fire>>

\* The calls are made once, on the new objects.
NextEquiv ==
    /\ last.op = "init"
    /\ \E x \in EquivHandlers(1), y \in EquivHandlers(2), z \in EquivHandlers(3) :
          EqualCalls(x, y, z) /\ UNCHANGED <<hist, objs, threads>>

SpecEquiv == Init /\ [][NextEquiv]_vars

(***************************************************************************)
(* A manager whose events are any values add_event_handler accepts: the    *)
(* strings "a", "" and "1" and the integer 1.  hist holds the call before  *)
(* the last one when it was an add_event_handler call.                     *)
(***************************************************************************)
KeyEvents == {PyStr("a"), PyStr(""), PyStr("1"), [t |-> "int", v |-> "1"]}

KeyHandlers == {EventHandler(1, "hello_handler"), EventHandler(3, "other_handler")}

\* The call made before the one that starts, when it was add_event_handler.
LogAdd ==
    hist' = IF last.op = "add"
            THEN <<[event |-> last.event, handler |-> last.handler]>>
            ELSE <<>>

NextKeys ==
    \/ \E e \in KeyEvents, h \in KeyHandlers :
          NumHandlers < MaxNewHandlers /\ AddEventHandler(e, h) /\ LogAdd /\ UNCHANGED <<objs, threads>>
    \/ \E e \in KeyEvents : FireEvent(e) /\ LogAdd /\ UNCHANGED <<objs, threads>>
    \/ Handle /\ UNCHANGED <<hist, objs, threads>>
    \/ FireReturn /\ UNCHANGED <<hist, objs, threads>>
    \/ \E h \in KeyHandlers, e \in KeyEvents \cup {None} :
          HasEventHandler(h, e) /\ LogAdd /\ UNCHANGED <<objs, threads>>
    \/ \E e \in KeyEvents, h \in KeyHandlers :
          RemoveEventHandler(e, h) /\ LogAdd /\ UNCHANGED <<objs, threads>>
    \/ Reset /\ LogAdd /\ UNCHANGED <<objs, threads>>

SpecKeys == Init /\ [][NextKeys]_vars

(***************************************************************************)
(* handle() called directly on EventHandler objects whose caller keeps the *)
(* list and the dict it passed to the constructor, and changes them after  *)
(* the construction.  objs[i].held is what the caller's list and dict hold *)
(* now.                                                                    *)
(***************************************************************************)
\* `handler_kwargs or {}` is the dict of the caller itself, and no copy of
\* it, when that dict is true (not empty); an empty dict gives a new one.
KwargsIsCallers(handler_kwargs) ==
    handler_kwargs.t = "dict" /\ Truthy(handler_kwargs)

\* `tuple(handler_args or ())` is the object of the caller when it is a
\* tuple already, and a new tuple when the caller passed a list.
ArgsIsCallers(handler_args) ==
    handler_args.t = "tuple" /\ Truthy(handler_args)

\* The caller of the constructor appends "z" to the list it passed.
CallerAppendsArg(i) ==
    LET held == objs[i].held.handler_args
    IN  /\ fire.pc = "idle"
        /\ held.t = "list"
        /\ \A j \in 1..Len(held.v) : held.v[j] # "z"
        /\ objs' = [objs EXCEPT
                      ![i].held.handler_args.v = Append(@, "z"),
                      ![i].self.handler_args =
                          IF ArgsIsCallers(objs[i].given.handler_args)
                          THEN Append(@, "z") ELSE @]
        /\ last' = [op |-> "append", event |-> None, handler |-> objs[i].self,
                    out |-> "ok"]
        /\ prev' = Fields
        /\ scenario' = 0
        /\ UNCHANGED <<event_handlers, last_fired_event, step, fire, calls, ran,
                       passed, evals, ncalls>>

\* The caller of the constructor sets the key "k9" of the dict it passed.
CallerSetsKwarg(i) ==
    LET held == objs[i].held.handler_kwargs
    IN  /\ fire.pc = "idle"
        /\ held.t = "dict"
        /\ \A j \in 1..Len(held.v) : held.v[j][1] # "k9"
        /\ objs' = [objs EXCEPT
                      ![i].held.handler_kwargs.v = Append(@, <<"k9", "z">>),
                      ![i].self.handler_kwargs =
                          IF KwargsIsCallers(objs[i].given.handler_kwargs)
                          THEN Append(@, <<"k9", "z">>) ELSE @]
        /\ last' = [op |-> "setitem", event |-> None, handler |-> objs[i].self,
                    out |-> "ok"]
        /\ prev' = Fields
        /\ scenario' = 0
        /\ UNCHANGED <<event_handlers, last_fired_event, step, fire, calls, ran,
                       passed, evals, ncalls>>

NextMutate ==
    \/ \E p \in Payloads, a \in ArgInputs, k \in KwargInputs :
          Len(objs) < MaxHandleObjs /\ NewEventHandler(p, a, k) /\ UNCHANGED <<hist, threads>>
    \/ \E i \in 1..Len(objs) :
          Len(calls) < MaxHandleCalls /\ HandleObject(i) /\ UNCHANGED <<hist, threads>>
    \/ \E i \in 1..Len(objs) : CallerAppendsArg(i) /\ UNCHANGED <<hist, threads>>
    \/ \E i \in 1..Len(objs) : CallerSetsKwarg(i) /\ UNCHANGED <<hist, threads>>

SpecMutate == Init /\ [][NextMutate]_vars

(***************************************************************************)
(* A manager some of whose payloads call the manager while fire_event      *)
(* runs: one registers other_handler under "a", one registers a handler of *)
(* itself under "a", one unregisters hello_handler from "a", one calls     *)
(* reset().  The registry is changed by these calls and by the             *)
(* add_event_handler calls of the user.                                    *)
(***************************************************************************)
ReentrantHandlers ==
    { EventHandler(1, "hello_handler"),
      EventHandler(13, "adding_handler"),
      EventHandler(14, "removing_handler"),
      EventHandler(15, "resetting_handler"),
      EventHandler(16, "self_adding_handler") }

NextReentrant ==
    \/ \E e \in EventNames, h \in ReentrantHandlers :
          NumHandlers < MaxNewHandlers /\ AddEventHandler(e, h) /\ UNCHANGED <<hist, objs, threads>>
    \/ \E e \in EventNames : FireEvent(e) /\ UNCHANGED <<hist, objs, threads>>
    \/ NumHandlers < MaxHandlers /\ Handle /\ UNCHANGED <<hist, objs, threads>>
    \/ FireReturn /\ UNCHANGED <<hist, objs, threads>>

SpecReentrant == Init /\ [][NextReentrant]_vars

(***************************************************************************)
(* add_event_handler(e, h2) and remove_event_handler(e, h1) called at once *)
(* on two threads, on a manager that add_event_handler calls have filled.  *)
(* A call is a sequence of steps between which the other thread may run:   *)
(* add_event_handler looks the list up and then appends to it;             *)
(* remove_event_handler looks the event up, builds the new list, compares  *)
(* the lengths and then stores the new list or deletes the key.  When the  *)
(* callers use a lock, a call takes it before its first step and gives it  *)
(* back after its last.                                                    *)
(***************************************************************************)
\* Variant: the lock holds no thread back.
MayStepAlways(t) == threads.phase = "run"

\* Thread t may make its next step.
MayStep(t) ==
    /\ threads.phase = "run"
    /\ threads.locked => threads.lock \in {"none", t}

\* The variables that the steps of the two threads leave alone.
ThreadFrame ==
    UNCHANGED <<last_fired_event, step, fire, calls, ran, passed, evals, ncalls,
                last, prev, scenario>>

StartCalls(locked, event, h1, h2) ==
    /\ threads.phase = "setup"
    /\ fire.pc = "idle"
    /\ threads' = [phase |-> "run", locked |-> locked, lock |-> "none",
                   event |-> event, h1 |-> h1, h2 |-> h2,
                   add |-> [pc |-> "getitem", bound |-> FALSE],
                   rem |-> [pc |-> "contains", new |-> <<>>]]
    /\ Called([op |-> "threads", event |-> event, handler |-> h1, out |-> "running"])
    /\ UNCHANGED <<event_handlers, last_fired_event, step, fire>>

\* add_event_handler: self._event_handlers[str(event)]
AddEventHandler_getitem ==
    /\ MayStep("add")
    /\ threads.add.pc = "getitem"
    /\ event_handlers' = Touch(event_handlers, Str(threads.event))
    /\ threads' = [threads EXCEPT !.add = [pc |-> "append", bound |-> TRUE],
                                  !.lock = IF threads.locked THEN "add" ELSE @]
    /\ ThreadFrame

\* add_event_handler: .append(event_handler), on the list that was looked up
AddEventHandler_append ==
    /\ MayStep("add")
    /\ threads.add.pc = "append"
    /\ event_handlers' =
          IF threads.add.bound
          THEN [event_handlers EXCEPT ![Str(threads.event)] = ListAppend(@, threads.h2)]
          ELSE event_handlers
    /\ threads' = [threads EXCEPT !.add.pc = "returned", !.lock = "none"]
    /\ ThreadFrame

\* remove_event_handler: if event not in self._event_handlers: raise
RemoveEventHandler_contains ==
    /\ MayStep("rem")
    /\ threads.rem.pc = "contains"
    /\ threads' =
          IF threads.event \notin DOMAIN event_handlers
          THEN [threads EXCEPT !.rem.pc = "raised", !.lock = "none"]
          ELSE [threads EXCEPT !.rem.pc = "build",
                               !.lock = IF threads.locked THEN "rem" ELSE @]
    /\ UNCHANGED event_handlers
    /\ ThreadFrame

\* remove_event_handler: new_event_handlers = [...]
RemoveEventHandler_build ==
    /\ MayStep("rem")
    /\ threads.rem.pc = "build"
    /\ threads' = [threads EXCEPT
                     !.rem = [pc |-> "compare",
                              new |-> NewEventHandlers(event_handlers[threads.event],
                                                       threads.h1)]]
    /\ UNCHANGED event_handlers
    /\ ThreadFrame

\* remove_event_handler: if len(new_event_handlers) == len(...): raise
RemoveEventHandler_compare ==
    /\ MayStep("rem")
    /\ threads.rem.pc = "compare"
    /\ threads' =
          IF Len(threads.rem.new) = Len(event_handlers[threads.event])
          THEN [threads EXCEPT !.rem.pc = "raised", !.lock = "none"]
          ELSE [threads EXCEPT !.rem.pc = "store"]
    /\ UNCHANGED event_handlers
    /\ ThreadFrame

\* remove_event_handler: the new list is stored, or the key deleted; the
\* list that add_event_handler looked up is then no list of the registry.
RemoveEventHandler_store ==
    /\ MayStep("rem")
    /\ threads.rem.pc = "store"
    /\ event_handlers' = StoreOrDelete(event_handlers, threads.event, threads.rem.new)
    /\ threads' = [threads EXCEPT
                     !.rem.pc = "returned",
                     !.lock = "none",
                     !.add.bound = @ /\ Str(threads.event) # threads.event]
    /\ ThreadFrame

NextThreads ==
    \/ \E e \in EventNames, h \in Handlers :
          /\ threads.phase = "setup"
          /\ NumHandlers < MaxNewHandlers
          /\ AddEventHandler(e, h)
          /\ UNCHANGED <<hist, objs, threads>>
    \/ \E locked \in BOOLEAN, e \in EventNames, h1 \in Handlers, h2 \in Handlers :
          StartCalls(locked, e, h1, h2) /\ UNCHANGED <<hist, objs>>
    \/ AddEventHandler_getitem /\ UNCHANGED <<hist, objs>>
    \/ AddEventHandler_append /\ UNCHANGED <<hist, objs>>
    \/ RemoveEventHandler_contains /\ UNCHANGED <<hist, objs>>
    \/ RemoveEventHandler_build /\ UNCHANGED <<hist, objs>>
    \/ RemoveEventHandler_compare /\ UNCHANGED <<hist, objs>>
    \/ RemoveEventHandler_store /\ UNCHANGED <<hist, objs>>

SpecThreads == Init /\ [][NextThreads]_vars

(***************************************************************************)
(* Properties.  They are stated on the record of the operation called last  *)
(* (last), the manager's fields when it was called (prev) and the fields    *)
(* now.                                                                     *)
(***************************************************************************)
\* The list of event e in registry d, empty when e has none.
ListOf(d, e) == IF e \in DOMAIN d THEN d[e] ELSE <<>>

\* The number of entries of lst that h.equal matches.
NumEqual(lst, h) == Cardinality({i \in 1..Len(lst) : equal(h, lst[i])})

\* The number of entries of the sequence of payloads that are payload p.
NumRuns(seq, p) == Cardinality({i \in 1..Len(seq) : seq[i] = p})

\* lst without the entries that h.equal matches, the others in their order.
RECURSIVE Survivors(_, _)
Survivors(lst, h) ==
    IF lst = <<>> THEN <<>>
    ELSE IF equal(h, Head(lst)) THEN Survivors(Tail(lst), h)
    ELSE <<Head(lst)>> \o Survivors(Tail(lst), h)

FireReturned == last.op = "fire" /\ last.out = "ok"

\* C1: fire_event(e) calls handle() on the handlers of e's list in
\* registration order, one after the other: while the loop runs, the handlers
\* called so far are the first entries of the list in the list's order, and
\* when fire_event has returned they are the whole list.
C1_FireInRegistrationOrder ==
    /\ fire.pc = "loop" =>
          /\ fire.it - 1 <= Len(event_handlers[fire.event])
          /\ calls = SubSeq(event_handlers[fire.event], 1, fire.it - 1)
    /\ FireReturned => calls = ListOf(event_handlers, last.event)

\* A was added before B, and the fire that returned ran A and then B.
C1_Witness ==
    /\ FireReturned
    /\ event_handlers[last.event] =
          <<EventHandler(1, "hello_handler"), EventHandler(3, "other_handler")>>
    /\ calls = <<EventHandler(1, "hello_handler"), EventHandler(3, "other_handler")>>

\* C2: last_fired_event is None on a new manager and after reset(); after
\* fire_event(e) it is e, whether or not e had a handler; add_event_handler,
\* remove_event_handler and has_event_handler leave it as it was.
C2_LastFiredEvent ==
    CASE last.op = "init" -> last_fired_event = None
      [] last.op = "reset" -> last_fired_event = None
      [] last.op = "fire" -> last_fired_event = last.event
      [] OTHER -> last_fired_event = prev.last_fired_event

\* An event without handlers was fired, and then a handler was queried.
C2_Witness ==
    /\ last.op = "has"
    /\ last_fired_event = PyStr("a")
    /\ ListOf(event_handlers, PyStr("a")) = <<>>

\* C3: fire_event(e) on an event that has no registered handler changes
\* nothing in the manager but last_fired_event: the registry after the call
\* is the registry before it.
C3_FireWithoutHandlerKeepsRegistry ==
    (last.op = "fire" /\ ListOf(prev.event_handlers, last.event) = <<>>)
        => event_handlers = prev.event_handlers

\* C4: add_event_handler detects no duplicate: each call adds one entry that
\* is equal to h, whatever the list holds; and a fire_event(e) that returned
\* has called handle() once per entry, so the payload of the k unconditional
\* entries that are equal to h has run k times for them.
C4_NoDuplicateDetection ==
    /\ last.op = "add" =>
          NumEqual(ListOf(event_handlers, last.event), last.handler)
              = NumEqual(ListOf(prev.event_handlers, last.event), last.handler) + 1
    /\ FireReturned =>
          \A h \in Handlers :
              LET lst == ListOf(event_handlers, last.event)
              IN  /\ Len(calls) = Len(lst)
                  /\ NumEqual(calls, h) = NumEqual(lst, h)
                  /\ h.cls = "EventHandler" =>
                        NumRuns(ran, h.handler) >= NumEqual(lst, h)
                  /\ (\A i \in 1..Len(lst) :
                          lst[i].handler = h.handler => lst[i].cls = "EventHandler")
                        => NumRuns(ran, h.handler)
                              = Cardinality({i \in 1..Len(lst) : lst[i].handler = h.handler})

\* The same handler was added three times, an equal one once, and a fire ran
\* the payload four times.
C4_Witness ==
    /\ FireReturned
    /\ Len(ListOf(event_handlers, last.event)) = 4
    /\ NumEqual(event_handlers[last.event], EventHandler(1, "hello_handler")) = 4
    /\ Cardinality({i \in 1..4 : event_handlers[last.event][i].id = 1}) = 3
    /\ ran = <<"hello_handler", "hello_handler", "hello_handler", "hello_handler">>

\* C5: add_event_handler(e, h) succeeds and appends h at the end of e's list,
\* which it creates when e has none; the entries of e's list keep their
\* places, and the lists of the other events and last_fired_event are as
\* before.
C5_AddAppends ==
    last.op = "add" =>
        /\ last.out = "ok"
        /\ DOMAIN event_handlers = DOMAIN prev.event_handlers \cup {last.event}
        /\ event_handlers[last.event]
              = Append(ListOf(prev.event_handlers, last.event), last.handler)
        /\ \A k \in DOMAIN prev.event_handlers \ {last.event} :
              event_handlers[k] = prev.event_handlers[k]
        /\ last_fired_event = prev.last_fired_event

\* A handler was appended to a list of two entries while the other event had
\* a list and an event had been fired.
C5_Witness ==
    /\ last.op = "add"
    /\ Len(event_handlers[last.event]) = 3
    /\ event_handlers[last.event][3] = last.handler
    /\ event_handlers[last.event][1] # last.handler
    /\ \E k \in DOMAIN event_handlers \ {last.event} : Len(event_handlers[k]) = 1
    /\ last_fired_event # None

\* C6: a remove_event_handler(e, h) that succeeds removes every entry of e's
\* list that is equal to h and keeps the other entries in their order.
C6_RemoveAllEqual ==
    (last.op = "remove" /\ last.out = "ok") =>
        /\ NumEqual(ListOf(prev.event_handlers, last.event), last.handler) >= 1
        /\ NumEqual(ListOf(event_handlers, last.event), last.handler) = 0
        /\ ListOf(event_handlers, last.event)
              = Survivors(ListOf(prev.event_handlers, last.event), last.handler)

\* Two entries equal to h, one before and one after two other entries, were
\* removed by one call and the two others kept their order.
C6_Witness ==
    /\ last.op = "remove"
    /\ last.out = "ok"
    /\ Len(prev.event_handlers[last.event]) = 4
    /\ NumEqual(prev.event_handlers[last.event], last.handler) = 2
    /\ equal(last.handler, prev.event_handlers[last.event][1])
    /\ equal(last.handler, prev.event_handlers[last.event][4])
    /\ Len(event_handlers[last.event]) = 2

\* C7: remove_event_handler(e, h) fails with the unknown-event error when no
\* handler is registered under e, and with the handler-not-found error when
\* e has registered handlers and none of them is equal to h.
C7_RemoveErrors ==
    last.op = "remove" =>
        LET lst == ListOf(prev.event_handlers, last.event)
        IN  /\ lst = <<>> => last.out = "event does not exist"
            /\ (lst # <<>> /\ NumEqual(lst, last.handler) = 0)
                  => last.out = "handler is not found"

\* C8: when remove_event_handler removes the last entries of e, the registry
\* holds no key for e afterwards, has_event_handler without an event name
\* does not visit e, and the registry is the one before the call without e.
C8_RemoveForgetsEmptyEvent ==
    (/\ last.op = "remove"
     /\ last.out = "ok"
     /\ Survivors(ListOf(prev.event_handlers, last.event), last.handler) = <<>>) =>
        /\ last.event \notin DOMAIN event_handlers
        /\ last.event \notin HasEventHandlerEvents(event_handlers, None)
        /\ event_handlers = Del(prev.event_handlers, last.event)

\* Three entries, all equal to h, were removed and the event is forgotten,
\* while the other event keeps its list.
C8_Witness ==
    /\ last.op = "remove"
    /\ last.out = "ok"
    /\ Len(prev.event_handlers[last.event]) = 3
    /\ last.event \notin DOMAIN event_handlers
    /\ DOMAIN event_handlers # {}

\* C9: in add_event_handler(e, h); remove_event_handler(e, h);
\* has_event_handler(h, e); remove_event_handler(e, h) the first remove
\* succeeds, has_event_handler returns false and the second remove raises
\* the handler-not-found error, not the unknown-event error.
C9_AddRemoveHasRemove ==
    /\ scenario = 2 => (last.op = "remove" /\ last.out = "ok")
    /\ scenario = 3 => (last.op = "has" /\ last.out = "false")
    /\ scenario = 4 => (last.op = "remove" /\ last.out = "handler is not found")

\* The four calls were made on an event whose only handler was h.
C9_Witness ==
    /\ scenario = 4
    /\ last.event \in DOMAIN event_handlers
    /\ event_handlers[last.event] = <<>>

\* C10: has_event_handler(h, e) returns true iff e's list holds an entry
\* equal to h, and false when e is unknown; has_event_handler(h) returns true
\* iff the list of some registered event holds an entry equal to h.
C10_HasEventHandler ==
    last.op = "has" =>
        /\ last.out \in {"true", "false"}
        /\ last.event # None =>
              (last.out = "true"
                  <=> NumEqual(ListOf(prev.event_handlers, last.event), last.handler) >= 1)
        /\ (last.event # None /\ last.event \notin DOMAIN prev.event_handlers)
              => last.out = "false"
        /\ last.event = None =>
              (last.out = "true"
                  <=> \E k \in DOMAIN prev.event_handlers :
                          NumEqual(prev.event_handlers[k], last.handler) >= 1)

\* has_event_handler(h) found an equal handler that is another object, under
\* an event that is not the only registered one.
C10_Witness ==
    /\ last.op = "has"
    /\ last.event = None
    /\ last.out = "true"
    /\ Cardinality(DOMAIN prev.event_handlers) = 2
    /\ \A k \in DOMAIN prev.event_handlers :
          \A i \in 1..Len(prev.event_handlers[k]) :
              prev.event_handlers[k][i].id # last.handler.id

\* The registry d without the events whose list is empty.
WithoutEmpty(d) == [k \in {x \in DOMAIN d : d[x] # <<>>} |-> d[k]]

\* The registries that differ from d only in which of the events E are
\* present with an empty list.
EmptyVariants(d, E) ==
    { WithoutEmpty(d) @@ [k \in K |-> <<>>] :
        K \in SUBSET (E \ DOMAIN WithoutEmpty(d)) }

\* C11: an event name mapped to an empty list is not told from an
\* unregistered one by a read: on the registries that differ only in the
\* events present with an empty list, every has_event_handler(h, e) and
\* has_event_handler(h) returns the same value, and every fire_event(e) calls
\* the same handlers.
C11_EmptyListAsUnregistered ==
    /\ \A d \in EmptyVariants(event_handlers, EventNames) :
          /\ \A h \in Handlers, e \in EventNames \cup {None} :
                HasEventHandlerResult(d, h, e)
                    <=> HasEventHandlerResult(event_handlers, h, e)
          /\ \A e \in EventNames : ListOf(d, e) = ListOf(event_handlers, e)
    /\ last.op = "has" =>
          \A d \in EmptyVariants(prev.event_handlers, EventNames) :
              last.out = "true" <=> HasEventHandlerResult(d, last.handler, last.event)
    /\ FireReturned =>
          \A d \in EmptyVariants(prev.event_handlers, EventNames) :
              calls = ListOf(d, last.event)

\* has_event_handler(h, e) was called on a registry that held e with an empty
\* list and another event with a handler equal to h.
C11_Witness ==
    /\ last.op = "has"
    /\ last.event \in DOMAIN prev.event_handlers
    /\ prev.event_handlers[last.event] = <<>>
    /\ \E k \in DOMAIN prev.event_handlers :
          NumEqual(prev.event_handlers[k], last.handler) >= 1
    /\ last.out = "false"

\* The fields of a manager that was just constructed.
FreshFields == [event_handlers |-> EmptyDict, last_fired_event |-> None]

\* C12: reset() succeeds in every state in which it can be called, and leaves
\* the registry empty and last_fired_event unset, which are the fields of a
\* new manager (so a second reset() changes nothing): has_event_handler then
\* returns false for every handler, with or without an event name, and a
\* fire of any event calls no handler.
C12_Reset ==
    /\ fire.pc = "idle" => ENABLED Reset
    /\ last.op = "reset" =>
          /\ last.out = "ok"
          /\ event_handlers = EmptyDict
          /\ last_fired_event = None
          /\ [event_handlers |-> event_handlers, last_fired_event |-> last_fired_event]
                = FreshFields
          /\ \A h \in Handlers, e \in EventNames \cup {None} :
                ~HasEventHandlerResult(event_handlers, h, e)
    /\ (last.op = "fire" /\ prev.event_handlers = EmptyDict) => calls = <<>>

\* reset() was called on a manager with handlers under two events and a
\* fired event.
C12_Witness ==
    /\ last.op = "reset"
    /\ Cardinality({k \in DOMAIN prev.event_handlers : prev.event_handlers[k] # <<>>}) = 2
    /\ prev.last_fired_event # None
    /\ event_handlers = EmptyDict

\* The payloads of the handlers of lst, in order.
PayloadsOf(lst) == [i \in 1..Len(lst) |-> lst[i].handler]

\* The place of the first entry of lst whose payload raises, 0 when none does.
FirstFailing(lst) ==
    IF \E i \in 1..Len(lst) : lst[i].handler \in FailingPayloads
    THEN CHOOSE i \in 1..Len(lst) :
            /\ lst[i].handler \in FailingPayloads
            /\ \A j \in 1..(i - 1) : lst[j].handler \notin FailingPayloads
    ELSE 0

FireRaised == last.op = "fire" /\ last.out \notin {"running", "ok"}

\* C13: if handle() of the i-th handler of e's list raises during
\* fire_event(e), fire_event ends with that error, handlers 1..i-1 have run
\* and their payloads stay run, and handlers i+1.. are not called in that
\* fire; a fire of a list with a raising handler never returns normally.
C13_ErrorPropagates ==
    /\ FireRaised =>
          LET lst == ListOf(prev.event_handlers, last.event)
              i == FirstFailing(lst)
          IN  /\ i >= 1
              /\ last.out = PayloadOutcome(lst[i].handler)
              /\ calls = SubSeq(lst, 1, i)
              /\ ran = PayloadsOf(SubSeq(lst, 1, i))
              /\ fire = Idle
    /\ (last.op = "fire" /\ FirstFailing(ListOf(prev.event_handlers, last.event)) >= 1)
          => last.out # "ok"
    /\ FireReturned => FirstFailing(ListOf(prev.event_handlers, last.event)) = 0

\* The second of three handlers raised: the first ran, the third was not
\* called.
C13_Witness ==
    /\ FireRaised
    /\ Len(ListOf(prev.event_handlers, last.event)) = 3
    /\ FirstFailing(prev.event_handlers[last.event]) = 2
    /\ prev.event_handlers[last.event][3].handler = "other_handler"
    /\ ran = <<"hello_handler", "failing_handler">>

\* C14: a fire_event call that a failing handler aborted leaves the registry
\* as it was: every event keeps its list in the same order and the failing
\* handler stays registered, so a following fire_event(e) starts again at the
\* first entry of the same list.
C14_AbortKeepsRegistry ==
    /\ FireRaised =>
          /\ event_handlers = prev.event_handlers
          /\ \E i \in 1..Len(event_handlers[last.event]) :
                event_handlers[last.event][i].handler \in FailingPayloads
          /\ ENABLED (/\ FireEvent(last.event)
                      /\ fire'.it = 1
                      /\ event_handlers' = prev.event_handlers)
    /\ fire.pc = "loop" =>
          /\ fire.it - 1 <= Len(event_handlers[fire.event])
          /\ calls = SubSeq(event_handlers[fire.event], 1, fire.it - 1)
          /\ event_handlers = Touch(prev.event_handlers, fire.event)

\* A fire was aborted on a manager that has handlers under both events.
C14_Witness ==
    /\ FireRaised
    /\ Cardinality({k \in DOMAIN event_handlers : Len(event_handlers[k]) >= 2}) = 2
    /\ last_fired_event = last.event

\* C15: on a PeriodicCondition of frequency F >= 1, the n-th call of
\* evaluate() (n = 0, 1, 2, ...) returns true iff n mod F = 0, each call adds
\* exactly one to _step and to no other counter, and _step equals the number
\* of evaluate() calls made on the condition.
C15_PeriodicEvaluate ==
    /\ \A c \in Conditions : Freq(c) >= 1 => step[c] = ncalls[c]
    /\ (last.op = "evaluate" /\ Freq(evals[1].cond) >= 1) =>
          LET c == evals[1].cond
              n == ncalls[c] - 1
          IN  /\ last.out \in {"true", "false"}
              /\ (last.out = "true") <=> (n % Freq(c) = 0)
              /\ step[c] = prev.step[c] + 1
              /\ \A d \in Conditions \ {c} : step[d] = prev.step[d]

\* The seventh call (n = 6) on the condition of frequency 3 returned true.
C15_Witness ==
    /\ last.op = "evaluate"
    /\ evals[1].cond = "p3"
    /\ ncalls["p3"] = 6 + 1
    /\ last.out = "true"

\* C16: evaluate() has no error path: on every PeriodicCondition the
\* constructor accepts, a call of evaluate() returns a boolean.
C16_EvaluateNeverRaises ==
    last.op = "evaluate" => last.out \in {"true", "false"}

\* The number of the first n evaluate() calls of the operation that were made
\* on condition c.
EvalsOn(c, n) == Cardinality({j \in 1..n : evals[j].cond = c})

\* The payloads of the handlers cs whose evaluation in es returned true.
RECURSIVE PayloadsRun(_, _)
PayloadsRun(cs, es) ==
    IF cs = <<>> THEN <<>>
    ELSE (IF Head(es).result = "true" THEN <<Head(cs).handler>> ELSE <<>>)
            \o PayloadsRun(Tail(cs), Tail(es))

\* C17: each handle() call on a ConditionalEventHandler evaluates its
\* condition exactly once and calls the payload once iff the evaluation
\* returned true; a false evaluation raises nothing, and the condition's
\* counter advances by one on every handle() call, payload run or not.
C17_ConditionalHandle ==
    /\ Len(evals) = Len(calls)
    /\ \A i \in 1..Len(evals) : evals[i].cond = calls[i].condition
    /\ ran = PayloadsRun(calls, evals)
    /\ \A c \in Conditions : step[c] = prev.step[c] + EvalsOn(c, Len(evals))
    /\ last.op = "fire" => last.out \in {"running", "ok"}

\* A fire handled several conditional handlers and ran the payload of some
\* of them and not of others.
C17_Witness ==
    /\ FireReturned
    /\ Len(calls) >= 2
    /\ Len(ran) >= 1
    /\ Len(ran) < Len(calls)
    /\ \E c \in Conditions : step[c] = prev.step[c] + Len(calls)

\* C19: handlers and conditions are held by reference: a condition used by
\* several handlers, or held by a handler registered several times, has one
\* counter, which every handle() call on any of them advances; its step is
\* the total number of those handle() calls, and each evaluation sees the
\* count left by the calls made before it, in the order of the calls.
C19_SharedCondition ==
    /\ \A c \in Conditions : step[c] = ncalls[c]
    /\ \A i \in 1..Len(evals) :
          LET c == evals[i].cond
              n == prev.step[c] + EvalsOn(c, i - 1)
          IN  /\ evals[i].step = n
              /\ (evals[i].result = "true") <=> (n % Freq(c) = 0)

\* One fire handled a handler object twice and, between the two calls,
\* another handler that holds the same condition.
C19_Witness ==
    /\ FireReturned
    /\ Len(calls) = 3
    /\ calls[1] = calls[3]
    /\ calls[2].id # calls[1].id
    /\ calls[2].condition = calls[1].condition
    /\ ran = <<calls[1].handler, calls[3].handler>>
    /\ Cardinality(DOMAIN event_handlers) = 1

\* h and g have the same class, payload and arguments, and conditions of the
\* same frequency.
SameConfig(h, g) ==
    /\ h.cls = g.cls
    /\ h.handler = g.handler
    /\ h.handler_args = g.handler_args
    /\ h.handler_kwargs = g.handler_kwargs
    /\ Freq(h.condition) = Freq(g.condition)

\* The places of lst whose entry has the configuration of h.
Matches(lst, h) == {i \in 1..Len(lst) : SameConfig(h, lst[i])}

\* C20: the equality of PeriodicCondition looks at the frequency only, so a
\* registered conditional handler, whatever the step of its condition, is
\* matched by a ConditionalEventHandler of the same payload, arguments and
\* frequency whose condition was never evaluated: has_event_handler returns
\* true for it and remove_event_handler removes it.
C20_EqualityIgnoresStep ==
    /\ (last.op = "has" /\ last.event # None) =>
          (last.out = "true"
              <=> Matches(ListOf(prev.event_handlers, last.event), last.handler) # {})
    /\ (last.op = "has" /\ last.event = None) =>
          (last.out = "true"
              <=> \E k \in DOMAIN prev.event_handlers :
                      Matches(prev.event_handlers[k], last.handler) # {})
    /\ last.op = "remove" =>
          LET lst == ListOf(prev.event_handlers, last.event)
              new == ListOf(event_handlers, last.event)
          IN  /\ (last.out = "ok") <=> (Matches(lst, last.handler) # {})
              /\ last.out = "ok" =>
                    /\ Matches(new, last.handler) = {}
                    /\ Len(new) = Len(lst) - Cardinality(Matches(lst, last.handler))

\* A handler whose condition has been evaluated was removed by a call that
\* passed another object, whose own condition is at step 0.
C20_Witness ==
    /\ last.op = "remove"
    /\ last.out = "ok"
    /\ step[last.handler.condition] = 0
    /\ \E i \in 1..Len(prev.event_handlers[last.event]) :
          LET g == prev.event_handlers[last.event][i]
          IN  /\ SameConfig(last.handler, g)
              /\ g.condition # last.handler.condition
              /\ step[g.condition] >= 2

\* The fires in the record that were fires of event e.
FiresOf(e) == SelectSeq(hist, LAMBDA r : r.event = e)

\* C18: a conditional handler with a PeriodicCondition(F) of its own,
\* registered once under e, runs its payload on the fires number 1, F + 1,
\* 2F + 1, ... of e and on no other fire; with F = 3 and 10 fires of e the
\* payload runs 4 times, on the fires 1, 4, 7 and 10.
C18_PeriodicFires ==
    \A e \in DOMAIN event_handlers :
        Len(event_handlers[e]) = 1 =>
            LET h == event_handlers[e][1]
                F == Freq(h.condition)
                fe == FiresOf(e)
                runs == {n \in 1..Len(fe) : fe[n].ran # <<>>}
            IN  /\ \A n \in 1..Len(fe) :
                      /\ (n - 1) % F = 0 => fe[n].ran = <<h.handler>>
                      /\ (n - 1) % F # 0 => fe[n].ran = <<>>
                /\ \A i \in 1..Len(hist) : hist[i].event # e => hist[i].ran = <<>>
                /\ (F = 3 /\ Len(fe) = 10) =>
                      /\ runs = {1, 4, 7, 10}
                      /\ Cardinality(runs) = 4

\* The handler of frequency 3 was fired 10 times.
C18_Witness ==
    /\ fire.pc = "idle"
    /\ \E e \in DOMAIN event_handlers :
          /\ Len(event_handlers[e]) = 1
          /\ Freq(event_handlers[e][1].condition) = 3
          /\ Len(FiresOf(e)) = 10
          /\ step[event_handlers[e][1].condition] = 10

\* C21: two handlers are equal iff they are of the same class and have the
\* same payload, the same positional arguments in the same order, the same
\* keyword arguments (the same keys with the same values, in any order) and,
\* when they are conditional, equal conditions; so a difference in any one of
\* these makes them unequal, and an EventHandler is never equal to a
\* ConditionalEventHandler.
C21_HandlerEquality ==
    last.op = "equal" =>
        LET h == last.handler
            g == last.other
        IN  /\ (last.out = "true") <=>
                  /\ h.cls = g.cls
                  /\ h.handler = g.handler
                  /\ h.handler_args = g.handler_args
                  /\ \A kv \in DictItems(h.handler_kwargs) : kv \in DictItems(g.handler_kwargs)
                  /\ \A kv \in DictItems(g.handler_kwargs) : kv \in DictItems(h.handler_kwargs)
                  /\ h.cls = "ConditionalEventHandler"
                        => Freq(h.condition) = Freq(g.condition)
            /\ h.cls # g.cls => last.out = "false"
            /\ last.out \in {"true", "false"}

\* Two conditional handlers of two constructions are equal: their keyword
\* arguments were given in different orders and their conditions are two
\* objects.
C21_Witness ==
    /\ last.op = "equal"
    /\ last.out = "true"
    /\ last.handler.id # last.other.id
    /\ last.handler.cls = "ConditionalEventHandler"
    /\ last.handler.condition # last.other.condition
    /\ Len(last.handler.handler_args) = 2
    /\ Len(last.handler.handler_kwargs) = 2
    /\ last.handler.handler_kwargs # last.other.handler_kwargs

\* The handlers of all the lists of the registry.
Registered ==
    UNION { {event_handlers[k][i] : i \in 1..Len(event_handlers[k])} :
            k \in DOMAIN event_handlers }

\* C22: the constructor of EventHandler and of ConditionalEventHandler, given
\* a payload that is not callable, raises TypeError "handler is not callable"
\* and makes no object, so no handler that is registered or handle()d has a
\* payload that cannot be called.
C22_PayloadMustBeCallable ==
    /\ last.op = "new" =>
          IF last.given.handler \in {"hello_handler", "other_handler", "failing_handler"}
          THEN last.out = "ok" /\ Len(objs) = last.before + 1
          ELSE /\ last.out = "TypeError: handler is not callable"
               /\ Len(objs) = last.before
    /\ \A i \in 1..Len(objs) : objs[i].self.handler # "123"
    /\ \A h \in Registered : h.handler # "123"
    /\ \A i \in 1..Len(calls) : calls[i].handler # "123"

\* ConditionalEventHandler(123, condition) raised while the manager holds
\* a handler made by an earlier constructor call.
C22_Witness ==
    /\ last.op = "new"
    /\ last.given.cls = "ConditionalEventHandler"
    /\ last.given.handler = "123"
    /\ last.out = "TypeError: handler is not callable"
    /\ Len(objs) = 1
    /\ Registered # {}
    /\ last_fired_event # None

\* C23: the constructor of ConditionalEventHandler, given a condition that is
\* no condition object (the integer 123), raises, so that no fire_event ends
\* with the error of evaluating such a condition.
C23_ConditionMustBeValid ==
    /\ (last.op = "new" /\ last.given.cls = "ConditionalEventHandler"
          /\ last.given.condition = "123") => last.out # "ok"
    /\ last.op = "fire" => last.out # "AttributeError"

\* The elements of the positional arguments given to a constructor, and the
\* items of the keyword arguments given to it.
GivenArgs(given) ==
    IF given.handler_args = None THEN <<>> ELSE given.handler_args.v

GivenKwargs(given) ==
    IF given.handler_kwargs = None THEN {}
    ELSE {given.handler_kwargs.v[j] : j \in 1..Len(given.handler_kwargs.v)}

\* C24: an EventHandler is stateless: n handle() calls call the payload n
\* times, each time with the positional and keyword arguments given at
\* construction, and after any number of calls the handler holds the payload
\* and the arguments it was constructed with.
C24_HandleForwardsArguments ==
    /\ Len(ran) = Len(calls)
    /\ Len(passed) = Len(calls)
    /\ \A j \in 1..Len(calls) :
          LET given == objs[calls[j].id].given
          IN  /\ ran[j] = given.handler
              /\ passed[j].args = GivenArgs(given)
              /\ passed[j].kwargs = GivenKwargs(given)
    /\ \A i \in 1..Len(objs) :
          LET h == objs[i].self
              given == objs[i].given
          IN  /\ h.cls = "EventHandler"
              /\ h.handler = given.handler
              /\ h.handler_args = GivenArgs(given)
              /\ DictItems(h.handler_kwargs) = GivenKwargs(given)

\* The third handle() call on a handler constructed with a list of two
\* positional arguments and a dict of two keyword arguments.
C24_Witness ==
    /\ last.op = "handle"
    /\ Len(calls) = 3
    /\ Len(passed) = 3
    /\ passed[3].args = <<"x", "y">>
    /\ Cardinality(passed[3].kwargs) = 2
    /\ last.out = "ok"

\* C25: when add_event_handler(e, h) is only called after has_event_handler(h, e)
\* returned false, no list of the registry ever holds two equal handlers:
\* however many guarded attempts are made with equal handlers, the list
\* holds one of them.
C25_GuardedAddNoDuplicate ==
    \A k \in DOMAIN event_handlers :
        \A i, j \in 1..Len(event_handlers[k]) :
            i # j =>
                LET h == event_handlers[k][i]
                    g == event_handlers[k][j]
                IN  ~(/\ h.cls = g.cls
                      /\ h.handler = g.handler
                      /\ h.handler_args = g.handler_args
                      /\ h.handler_kwargs = g.handler_kwargs)

\* A guarded attempt with a second object equal to the registered one was
\* stopped by has_event_handler returning true, and the list of the event
\* holds the first object alone.
C25_Witness ==
    /\ last.op = "has"
    /\ last.event \in DOMAIN event_handlers
    /\ last.out = "true"
    /\ Len(event_handlers[last.event]) = 1
    /\ event_handlers[last.event][1].id # last.handler.id
    /\ prev.event_handlers = event_handlers
    /\ \E k \in DOMAIN event_handlers : Len(event_handlers[k]) = 2

\* C26: remove_event_handler(e, h) touches event e alone: whatever its
\* outcome, every other event keeps its list, entries equal to h included,
\* and last_fired_event is as before, so h is found under the other events
\* as it was.
C26_RemoveOtherEventsKept ==
    last.op = "remove" =>
        /\ DOMAIN event_handlers \ {last.event} = DOMAIN prev.event_handlers \ {last.event}
        /\ \A k \in DOMAIN event_handlers \ {last.event} :
              /\ event_handlers[k] = prev.event_handlers[k]
              /\ NumEqual(event_handlers[k], last.handler)
                    = NumEqual(prev.event_handlers[k], last.handler)
        /\ last_fired_event = prev.last_fired_event

\* h was removed from the event fired last while another event holds an
\* entry equal to h.
C26_Witness ==
    /\ last.op = "remove"
    /\ last.out = "ok"
    /\ last_fired_event = last.event
    /\ \E k \in DOMAIN event_handlers \ {last.event} :
          /\ Len(event_handlers[k]) = 2
          /\ NumEqual(event_handlers[k], last.handler) >= 1

\* C27: has_event_handler is a pure query: with or without an event name,
\* for a known or an unknown event, it leaves the registry and
\* last_fired_event as they were.
C27_HasIsPure ==
    last.op = "has" =>
        /\ event_handlers = prev.event_handlers
        /\ last_fired_event = prev.last_fired_event

\* C28: a remove_event_handler call that fails, for an unknown event or for
\* want of a matching handler, leaves the manager as it was: the same event
\* keys, the same lists in the same order, the same last_fired_event.
C28_FailedRemoveChangesNothing ==
    (last.op = "remove" /\ last.out # "ok") =>
        /\ last.out \in {"event does not exist", "handler is not found"}
        /\ event_handlers = prev.event_handlers
        /\ last_fired_event = prev.last_fired_event
        /\ step = prev.step

\* A remove for an unknown event failed on a manager that holds handlers
\* under the other event and has fired.
C28_Witness ==
    /\ last.op = "remove"
    /\ last.out = "event does not exist"
    /\ last.event \notin DOMAIN event_handlers
    /\ NumHandlers >= 2
    /\ last_fired_event # None

\* C29: fire_event(e) sets last_fired_event to e before it calls a handler:
\* while the handlers are called last_fired_event is e, and it is still e
\* when a handler raised and the fire was aborted.
C29_LastFiredSetBeforeHandlers ==
    /\ fire.pc = "loop" => last_fired_event = fire.event
    /\ (last.op = "fire" /\ calls # <<>>) => last_fired_event = last.event
    /\ FireRaised => last_fired_event = last.event

\* A fire of an event other than the one fired before was aborted by its
\* second handler.
C29_Witness ==
    /\ FireRaised
    /\ Len(calls) = 2
    /\ prev.last_fired_event # None
    /\ prev.last_fired_event # last.event
    /\ last_fired_event = last.event

\* What has_event_handler(h, event) returned on registry d: whether a list it
\* looks at holds an entry of the configuration of h.
Found(d, h, event) ==
    IF event = None
    THEN \E k \in DOMAIN d : Matches(d[k], h) # {}
    ELSE Matches(ListOf(d, event), h) # {}

\* C30: a fire_event call changes no registration: while it runs and after
\* it, has_event_handler(h, e) and has_event_handler(h) give for every
\* handler h and event e what they gave before the call; a has_event_handler
\* call changes none of these results either.
C30_FireKeepsRegistration ==
    last.op \in {"fire", "has"} =>
        \A h \in CondProbes, e \in EventNames \cup {None} :
            /\ Found(event_handlers, h, e) = Found(prev.event_handlers, h, e)
            /\ HasEventHandlerResult(event_handlers, h, e)
                  = Found(prev.event_handlers, h, e)

\* A fire returned that advanced a condition which an earlier fire had
\* advanced already, and a handler object that is no entry of the registry
\* is found in it.
C30_Witness ==
    /\ FireReturned
    /\ calls # <<>>
    /\ step # prev.step
    /\ \E c \in Conditions : prev.step[c] >= 1
    /\ \E h \in CondProbes :
          /\ Found(event_handlers, h, None)
          /\ \A g \in Registered : g.id # h.id

\* C31: fire_event(e) advances the conditions of the conditional handlers of
\* e's list only, by one for each entry that was handle()d: while the fire
\* runs and after it, the counter of every condition is its counter at the
\* call plus the number of the entries handle()d so far that hold it, so the
\* counter of a condition held only by handlers of other events, or by
\* handlers that are registered nowhere, is the one at the call.
C31_FireAdvancesOnlyItsConditions ==
    last.op = "fire" =>
        LET lst == ListOf(prev.event_handlers, last.event)
            done == SubSeq(lst, 1, Len(calls))
        IN  /\ Len(calls) <= Len(lst)
            /\ FireReturned => Len(calls) = Len(lst)
            /\ \A c \in Conditions : step[c] = prev.step[c] + Uses(done, c)

\* A fire of an event with two entries that hold c1 returned; p3, whose
\* counter an earlier fire advanced, is held by a handler of the other event
\* only.
C31_Witness ==
    /\ FireReturned
    /\ Uses(ListOf(prev.event_handlers, last.event), "c1") = 2
    /\ Uses(ListOf(prev.event_handlers, last.event), "p3") = 0
    /\ \E e \in DOMAIN event_handlers : Uses(event_handlers[e], "p3") >= 1
    /\ prev.step["p3"] >= 1
    /\ step["p3"] = prev.step["p3"]
    /\ step["c1"] = prev.step["c1"] + 2

\* C39: remove_event_handler and reset leave the counters of the conditions
\* as they are, and so do add_event_handler and has_event_handler; the
\* evaluations of a fire start, for each condition, at the counter the
\* condition had when fire_event was called, which is never below the
\* counter it had at an earlier remove_event_handler or reset call.
C39_ClearingKeepsProgress ==
    /\ last.op \in {"reset", "remove", "add", "has"} => step = prev.step
    /\ \A i \in 1..Len(hist) : hist[i].op \in {"reset", "remove"}
    /\ \A j \in 1..Len(evals) :
          /\ evals[j].step = prev.step[evals[j].cond] + EvalsOn(evals[j].cond, j - 1)
          /\ \A i \in 1..Len(hist) : evals[j].step >= hist[i].step[evals[j].cond]

\* reset() was called when c1 had been evaluated twice; the handler that
\* holds c1 was registered again, and the fire that followed evaluated c1 at
\* step 2.
C39_Witness ==
    /\ Len(hist) >= 1
    /\ hist[Len(hist)].op = "reset"
    /\ hist[Len(hist)].step["c1"] = 2
    /\ FireReturned
    /\ Len(evals) >= 1
    /\ evals[1].cond = "c1"
    /\ evals[1].step = 2

\* C38: equal() over EventHandler and ConditionalEventHandler objects is an
\* equivalence: x.equal(x) holds, x.equal(y) is y.equal(x), and x.equal(y)
\* with y.equal(z) gives x.equal(z); so has_event_handler(x, e) and
\* remove_event_handler(e, x) on a list of y and z, which call x.equal on the
\* stored handlers, find and drop the entries that the stored handlers'
\* equal(x) would.
C38_EqualIsEquivalence ==
    last.op = "equals" =>
        LET x == last.handler
            lst == <<last.other, last.third>>
            d == [e \in {PyStr("a")} |-> lst]
        IN  /\ last.out.xx
            /\ last.out.xy = last.out.yx
            /\ (last.out.xy /\ last.out.yz) => last.out.xz
            /\ HasEventHandlerResult(d, x, PyStr("a"))
                  = (\E i \in 1..Len(lst) : equal(lst[i], x))
            /\ HasEventHandlerResult(d, x, None)
                  = (\E i \in 1..Len(lst) : equal(lst[i], x))
            /\ NewEventHandlers(lst, x)
                  = SelectSeq(lst, LAMBDA stored : ~equal(stored, x))

\* Three conditional handler objects that are equal: the keyword arguments of
\* x and y are in another order, and the conditions of y and z are two
\* objects of the same frequency.
C38_Witness ==
    /\ last.op = "equals"
    /\ last.handler.cls = "ConditionalEventHandler"
    /\ last.handler.handler_kwargs # last.other.handler_kwargs
    /\ last.other.condition # last.third.condition
    /\ last.out.xy
    /\ last.out.yz
    /\ last.out.xz

\* C34: the operations address an event by the same key: when the call that
\* follows add_event_handler(e, h) is has_event_handler(h, e) it returns
\* true, when it is remove_event_handler(e, h) it removes h, and when it is
\* fire_event(e) it has called h.handle() once it has returned.
C34_SameKeyInAllOperations ==
    (Len(hist) = 1 /\ last.event = hist[1].event) =>
        /\ (last.op = "has" /\ last.handler = hist[1].handler) => last.out = "true"
        /\ (last.op = "remove" /\ last.handler = hist[1].handler) => last.out = "ok"
        /\ FireReturned => \E i \in 1..Len(calls) : calls[i] = hist[1].handler

\* C35: has_event_handler(h, e) with an event name e, the empty string
\* included, looks at the list of e only: it returns false when no entry of
\* that list is equal to h, whatever the lists of the other events hold.
C35_HasWithNameLooksAtOneList ==
    (last.op = "has" /\ last.event.t = "str"
        /\ NumEqual(ListOf(prev.event_handlers, last.event), last.handler) = 0)
    => last.out = "false"

\* The handler a constructor call with the values of given makes.
Twin(given) ==
    InitFields(0, given.cls, given.handler, given.condition, given.handler_args,
               given.handler_kwargs)

\* C37: the arguments of a handler are fixed at construction: whatever the
\* caller does afterwards to the list and the dict it passed, every handle()
\* call passes the payload the positional and keyword arguments given to the
\* constructor, and the handler stays equal to a handler constructed from
\* those values.
C37_ArgumentsFixedAtConstruction ==
    /\ \A j \in 1..Len(passed) :
          LET given == objs[calls[j].id].given
          IN  /\ passed[j].args = GivenArgs(given)
              /\ passed[j].kwargs = GivenKwargs(given)
    /\ \A i \in 1..Len(objs) :
          /\ equal(objs[i].self, Twin(objs[i].given))
          /\ equal(Twin(objs[i].given), objs[i].self)

\* C32: the handlers that one fire_event(e) call handle()s are the entries
\* that e's list held when the call started, in the order of the list,
\* whatever the payloads do to the manager during the fire: while the loop
\* runs the handlers called are the first entries of that list, and when
\* fire_event has returned they are the whole of it.
C32_FireWalksListAtStart ==
    last.op = "fire" =>
        LET lst == ListOf(prev.event_handlers, last.event)
        IN  /\ Len(calls) <= Len(lst)
            /\ calls = SubSeq(lst, 1, Len(calls))
            /\ FireReturned => Len(calls) = Len(lst)

\* The handle() calls that the entries of lst and the handlers these entries
\* register during the fire account for.
CallsBound(lst) ==
    Len(lst) + Cardinality({i \in 1..Len(lst) : PayloadCall(lst[i].handler).op = "add"})

\* C33: fire_event(e) makes a bounded number of handle() calls: at most one
\* for each entry that e's list held when the call started and one for each
\* handler that these entries registered during the fire.
C33_FireMakesBoundedCalls ==
    last.op = "fire" => Len(calls) <= CallsBound(ListOf(prev.event_handlers, last.event))

\* Both calls returned, h1 was registered under the event when they were
\* made, h2 is not equal to h1, and the list of the event holds no h2.
LostUpdate ==
    /\ threads.add.pc = "returned"
    /\ threads.rem.pc = "returned"
    /\ NumEqual(ListOf(prev.event_handlers, threads.event), threads.h1) >= 1
    /\ ~equal(threads.h1, threads.h2)
    /\ ~equal(threads.h2, threads.h1)
    /\ NumEqual(ListOf(event_handlers, threads.event), threads.h2) = 0

\* C36: when every call on the manager is made under one lock,
\* add_event_handler(e, h2) and remove_event_handler(e, h1) made on two
\* threads lose no update: once both have returned, h2 is in e's list.
\* Without the lock the two calls can both return and leave e's list
\* without h2 (the witness).
C36_LockExcludesLostUpdate == threads.locked => ~LostUpdate

\* The calls were made without a lock, both returned, and h2 is lost.
C36_Witness == ~threads.locked /\ LostUpdate

====
